---- MODULE Spec2Model ----
(***************************************************************************)
(* Docs-as-code engine of create-fhevm-examples: the directive scanner     *)
(* (DocParser), the navigation tree builder (NavTree) and the renderer     *)
(* (MarkdownRenderer).                                                     *)
(*                                                                         *)
(* Text is modelled as a sequence of symbols.  A symbol is either one      *)
(* whitespace character (" ", "\t"), the line separator "\n", or a run of  *)
(* non-whitespace characters that the regular expressions of the source    *)
(* treat as a unit ("///", "@chapter:", an identifier, a quote, ...).      *)
(* A line is a sequence of symbols without "\n".                           *)
(***************************************************************************)
EXTENDS Integers, Sequences, FiniteSets, TLC

\* ------------------------------------------------------------------ bounds
\* lines consumed by one scan (over all files)
MaxLines == 3
\* lines of the file of the worked example
MaxDemoLines == 6
\* lines of a file of include directives
MaxTabLines == 4
\* lines of a file with ignore markers
MaxIgnoreLines == 5
\* lines of a buffer handed to dedent / stripComments on their own
MaxBuf == 3

\* chapters handed to one call of render()
MaxChapters == 3
\* lines of a content handed to stripComments on its own
MaxStripLines == 4
\* lines of a scan that declares a chapter again
MaxRedeclareLines == 4
\* lines of the files two instances scan one after the other
MaxTwiceLines == 3
\* lines of a file with captures cut short by an include or a start marker
MaxFlushLines == 4
MaxSectionLines == 5
MaxResolveLines == 3
\* lines of a file with directives and narrative inside a capture
MaxCaptureLines == 5
\* lines of two files that include themselves and each other
MaxSelfLines == 5
\* lines scanned before the chapters are handed to render()
MaxGenerateLines == 3

\* ------------------------------------------------------------ text helpers
Null == "null"
Quote == "\""
NL == "\n"
Eol == "<eol>"

IsWs(c) == c \in {" ", "\t", NL}

At(s, i) == IF i \in 1..Len(s) THEN s[i] ELSE Eol

Max(S) == CHOOSE m \in S : \A k \in S : k <= m

Min(S) == CHOOSE m \in S : \A k \in S : m <= k

\* the regular expression \s* read from position i: the first position not
\* holding whitespace
RECURSIVE SkipWs(_, _)
SkipWs(s, i) == IF i <= Len(s) /\ IsWs(s[i]) THEN SkipWs(s, i + 1) ELSE i

\* String.prototype.trimEnd
RECURSIVE trimEnd(_)
trimEnd(s) ==
  IF Len(s) > 0 /\ IsWs(s[Len(s)]) THEN trimEnd(SubSeq(s, 1, Len(s) - 1)) ELSE s

\* String.prototype.trim
trim(s) == LET a == SkipWs(s, 1) IN trimEnd(SubSeq(s, a, Len(s)))

\* l.match(/^\s*/)![0].length
LeadingWs(s) == SkipWs(s, 1) - 1

\* Array.prototype.join("\n") over lines
RECURSIVE JoinLines(_)
JoinLines(ls) ==
  IF Len(ls) = 0 THEN <<>>
  ELSE IF Len(ls) = 1 THEN ls[1]
  ELSE ls[1] \o <<NL>> \o JoinLines(Tail(ls))

\* String.prototype.split("\n")
RECURSIVE SplitLines(_)
SplitLines(s) ==
  LET nls == {k \in 1..Len(s) : s[k] = NL}
  IN IF nls = {} THEN <<s>>
     ELSE LET k == Min(nls)
          IN <<SubSeq(s, 1, k - 1)>> \o SplitLines(SubSeq(s, k + 1, Len(s)))

\* --------------------------------------------------------------- dedent
RECURSIVE DropLeadingBlank(_)
DropLeadingBlank(buffer) ==
  IF Len(buffer) > 0 /\ trim(buffer[1]) = <<>>
  THEN DropLeadingBlank(Tail(buffer)) ELSE buffer

RECURSIVE DropTrailingBlank(_)
DropTrailingBlank(buffer) ==
  IF Len(buffer) > 0 /\ trim(buffer[Len(buffer)]) = <<>>
  THEN DropTrailingBlank(SubSeq(buffer, 1, Len(buffer) - 1)) ELSE buffer

\* the reduce without its test for blank lines
MinIndentCountsBlank(buffer) ==
  LET widths == {LeadingWs(buffer[k]) : k \in 1..Len(buffer)}
  IN IF widths = {} THEN -1 ELSE Min(widths)

\* the reduce over the buffer; Infinity is modelled by -1
MinIndent(buffer) ==
  LET widths == {LeadingWs(buffer[k]) : k \in {j \in 1..Len(buffer) : trim(buffer[j]) # <<>>}}
  IN IF widths = {} THEN -1 ELSE Min(widths)

DedentLine(l, minIndent) ==
  IF trim(l) # <<>> THEN SubSeq(l, minIndent + 1, Len(l)) ELSE <<>>

dedentLines(lines) ==
  LET buffer == DropTrailingBlank(DropLeadingBlank(lines))
      minIndent == MinIndent(buffer)
  IN IF Len(buffer) = 0 THEN <<>>
     ELSE IF minIndent = -1 THEN buffer
     ELSE [k \in 1..Len(buffer) |-> DedentLine(buffer[k], minIndent)]

dedent(lines) == JoinLines(dedentLines(lines))

\* ------------------------------------------------------- directive syntax
\* symbols of the class [a-z0-9-_]+
IdSymbols == {"demo", "other", "snip1", "snip2"}

\* symbols of the class \d+
DigitSymbols == {"1", "50"}

\* parseInt(s, 10) over DigitSymbols
parseInt(s) == IF s = "1" THEN 1 ELSE 50

NoMatch == [ok |-> FALSE]

\* /^\/\/\/\s*@chapter:\s*([a-z0-9-_]+)\s+"(.+)"/
chapterMatch(t) ==
  LET a == SkipWs(t, 2)
      b == SkipWs(t, a + 1)
      c == SkipWs(t, b + 1)
      qs == {k \in (c + 2)..Len(t) : t[k] = Quote}
  IN IF /\ At(t, 1) = "///"
        /\ At(t, a) = "@chapter:"
        /\ At(t, b) \in IdSymbols
        /\ c > b + 1
        /\ At(t, c) = Quote
        /\ qs # {}
     THEN [ok |-> TRUE, id |-> t[b], title |-> SubSeq(t, c + 1, Max(qs) - 1)]
     ELSE NoMatch

\* /^\/\/\/\s*@section:\s*"(.*)"/
sectionMatch(t) ==
  LET a == SkipWs(t, 2)
      b == SkipWs(t, a + 1)
      qs == {k \in (b + 1)..Len(t) : t[k] = Quote}
  IN IF /\ At(t, 1) = "///"
        /\ At(t, a) = "@section:"
        /\ At(t, b) = Quote
        /\ qs # {}
     THEN [ok |-> TRUE, title |-> SubSeq(t, b + 1, Max(qs) - 1)]
     ELSE NoMatch

\* /^\/\/\/\s*@priority:\s*(\d+)/
priorityMatch(t) ==
  LET a == SkipWs(t, 2)
      b == SkipWs(t, a + 1)
  IN IF /\ At(t, 1) = "///"
        /\ At(t, a) = "@priority:"
        /\ At(t, b) \in DigitSymbols
     THEN [ok |-> TRUE, value |-> t[b]]
     ELSE NoMatch

\* /^\/\/\/\s*@include:\s*"([^"]+)"(?:\s+(\{.*\}))?/
\* rawOptions is <<>> when the optional group does not take part in the match
includeMatch(t) ==
  LET a == SkipWs(t, 2)
      b == SkipWs(t, a + 1)
      qs == {k \in (b + 1)..Len(t) : t[k] = Quote}
      c == Min(qs)
      d == SkipWs(t, c + 1)
      es == {k \in (d + 1)..Len(t) : t[k] = "}"}
  IN IF /\ At(t, 1) = "///"
        /\ At(t, a) = "@include:"
        /\ At(t, b) = Quote
        /\ qs # {}
        /\ c > b + 1
     THEN [ok |-> TRUE,
           targetPath |-> SubSeq(t, b + 1, c - 1),
           rawOptions |-> IF d > c + 1 /\ At(t, d) = "{" /\ es # {}
                          THEN SubSeq(t, d, Max(es)) ELSE <<>>]
     ELSE NoMatch

\* /^\/\/\s*@start:\s*([a-z0-9-_]+)/
startMatch(t) ==
  LET a == SkipWs(t, 2)
      b == SkipWs(t, a + 1)
  IN IF At(t, 1) = "//" /\ At(t, a) = "@start:" /\ At(t, b) \in IdSymbols
     THEN [ok |-> TRUE, id |-> t[b]]
     ELSE NoMatch

\* /^\/\/\s*@end:\s*([a-z0-9-_]+)/
endMatch(t) ==
  LET a == SkipWs(t, 2)
      b == SkipWs(t, a + 1)
  IN IF At(t, 1) = "//" /\ At(t, a) = "@end:" /\ At(t, b) \in IdSymbols
     THEN [ok |-> TRUE, id |-> t[b]]
     ELSE NoMatch

\* trimmed.startsWith("// @ignore")
ignoreMatch(t) == At(t, 1) = "//" /\ At(t, 2) = " " /\ At(t, 3) = "@ignore"

\* trimmed.startsWith("///")
narrativeMatch(t) == At(t, 1) = "///"

\* narrativeText with the optional whitespace after "///" left in place
narrativeTextKeepsSpace(l) ==
  LET p == SkipWs(l, 1)
  IN IF At(l, p) = "///" THEN SubSeq(l, p + 1, Len(l)) ELSE l

\* line.replace(/^\s*\/\/\/\s?/, "")
narrativeText(l) ==
  LET p == SkipWs(l, 1)
      q == IF IsWs(At(l, p + 1)) THEN p + 2 ELSE p + 1
  IN IF At(l, p) = "///" THEN SubSeq(l, q, Len(l)) ELSE l

\* JSON.parse of the inline options; ok = FALSE stands for the SyntaxError
\* it throws.  Absent properties are Null.
OptNone == [ok |-> TRUE, strip |-> FALSE, group |-> Null, tabTitle |-> Null]

JSONparse(raw) ==
  CASE raw = <<"{", "}">> -> OptNone
    [] raw = <<"{", "\"group\":\"g\"", "}">> -> [OptNone EXCEPT !.group = "g"]
    [] raw = <<"{", "\"group\":\"h\"", "}">> -> [OptNone EXCEPT !.group = "h"]
    [] raw = <<"{", "\"group\":\"g\",\"tabTitle\":\"T\"", "}">> ->
         [OptNone EXCEPT !.group = "g", !.tabTitle = "T"]
    [] raw = <<"{", "\"strip\":true", "}">> -> [OptNone EXCEPT !.strip = TRUE]
    [] OTHER -> [ok |-> FALSE]

\* -------------------------------------------------------- comment stripping
\* content.replace(/\/\*[\s\S]*?\*\//gm, "")
RECURSIVE RemoveBlockComments(_)
RemoveBlockComments(s) ==
  LET opens == {k \in 1..Len(s) : s[k] = "/*"}
      i == Min(opens)
      closes == {k \in (i + 1)..Len(s) : s[k] = "*/"}
      j == Min(closes)
  IN IF opens = {} THEN s
     ELSE IF closes = {} THEN s
     ELSE SubSeq(s, 1, i - 1) \o RemoveBlockComments(SubSeq(s, j + 1, Len(s)))

\* line.replace(/(?<!http:|https:)\/\/.*$/, "")
CleanLine(l) ==
  LET starts == {k \in 1..Len(l) :
                   \/ l[k] = "//" /\ At(l, k - 1) \notin {"http:", "https:"}
                   \/ l[k] = "///"}
      k == Min(starts)
  IN IF starts = {} THEN l
     ELSE IF l[k] = "///" /\ At(l, k - 1) \in {"http:", "https:"}
     THEN SubSeq(l, 1, k - 1) \o <<"/">>
     ELSE SubSeq(l, 1, k - 1)

\* the reduce callback without rule 2: a line that was blank is dropped too
StripLineDropsBlank(l) ==
  IF trim(CleanLine(l)) # <<>> THEN <<trimEnd(CleanLine(l))>> ELSE <<>>

\* the reduce callback: the lines kept for one input line
StripLine(l) ==
  LET isWhitespaceInitially == trim(l) = <<>>
      cleanedLine == CleanLine(l)
      isWhitespaceFinally == trim(cleanedLine) = <<>>
  IN IF ~isWhitespaceFinally \/ isWhitespaceInitially
     THEN <<trimEnd(cleanedLine)>> ELSE <<>>

RECURSIVE StripLines(_)
StripLines(ls) ==
  IF Len(ls) = 0 THEN <<>> ELSE StripLine(ls[1]) \o StripLines(Tail(ls))

stripComments(content) ==
  JoinLines(StripLines(SplitLines(RemoveBlockComments(content))))

\* ------------------------------------------------------------- file system
\* A path is the sequence of its segments below "/".
rootDir == <<"proj">>

\* files found by glob(includeGlobs, ignore excludeGlobs), in the order parse()
\* visits them
ScanFiles ==
  << <<"proj", "test", "a.test.ts">>, <<"proj", "contracts", "A.sol">> >>

\* content of the other files on disk
FileContent ==
  ( <<"proj", "contracts", "B.sol">> :> <<"contract", " ", "B", NL>> ) @@
  ( <<"proj", "contracts", "lib", "B.sol">> :> <<"library", " ", "B">> ) @@
  ( <<"proj", "contracts", "C.sol">> :>
      <<"uint", " ", "c;", " ", "//", " ", "note", NL, "//", " ", "full", NL, NL, "uint", " ", "d;">> ) @@
  ( <<"proj", "scripts", "S.sol">> :> <<"contract", " ", "S">> ) @@
  ( <<"proj", "node_modules", "m", "N.sol">> :> <<"contract", " ", "N">> )

FsFiles == DOMAIN FileContent \cup {ScanFiles[k] : k \in 1..Len(ScanFiles)}

FsDirs == UNION {{SubSeq(f, 1, n) : n \in 1..(Len(f) - 1)} : f \in FsFiles}

\* fs.existsSync
existsSync(p) == p \in FsFiles \cup FsDirs

\* path.dirname
dirname(p) == SubSeq(p, 1, Len(p) - 1)

\* path.basename
basename(p) == p[Len(p)]

\* path.extname(p).replace(".", "").toLowerCase()
extname(p) ==
  CASE basename(p) \in {"a.test.ts"} -> "ts"
    [] basename(p) \in {"A.sol", "B.sol", "C.sol", "S.sol", "N.sol"} -> "sol"
    [] OTHER -> ""

getLanguageFromExtension(p) ==
  LET ext == extname(p)
  IN IF ext = "ts" \/ ext = "tsx" THEN "typescript"
     ELSE IF ext = "sol" THEN "solidity"
     ELSE ext

\* the segments of an include target: the symbols between the "/" symbols
TargetSegments(target) == SelectSeq(target, LAMBDA x : x # "/")

\* path.resolve(dir, target) for a relative target
RECURSIVE ResolveSegments(_, _)
ResolveSegments(dir, segs) ==
  IF Len(segs) = 0 THEN dir
  ELSE IF segs[1] = "." THEN ResolveSegments(dir, Tail(segs))
  ELSE IF segs[1] = ".."
  THEN ResolveSegments(IF Len(dir) > 0 THEN dirname(dir) ELSE dir, Tail(segs))
  ELSE ResolveSegments(Append(dir, segs[1]), Tail(segs))

IsSuffix(segs, p) ==
  Len(segs) <= Len(p) /\ SubSeq(p, Len(p) - Len(segs) + 1, Len(p)) = segs

\* includeGlobs: "test/**/*.ts", "contracts/**/*.sol"
Included(p) ==
  /\ SubSeq(p, 1, Len(rootDir)) = rootDir
  /\ Len(p) > Len(rootDir) + 1
  /\ \/ p[Len(rootDir) + 1] = "test" /\ extname(p) = "ts"
     \/ p[Len(rootDir) + 1] = "contracts" /\ extname(p) = "sol"

\* excludeGlobs: "**/node_modules/**", "**/*.d.ts"
Excluded(p) == \E k \in 1..(Len(p) - 1) : p[k] = "node_modules"

\* the search without the ignore option
DeepSearchUnfiltered(target) ==
  {f \in FsFiles : /\ SubSeq(f, 1, Len(rootDir)) = rootDir
                   /\ IsSuffix(TargetSegments(target), SubSeq(f, Len(rootDir) + 1, Len(f)))}

\* globSync(`**/${target}`, {cwd: rootDir, ignore: excludeGlobs, nodir: true})
DeepSearch(target) ==
  {f \in FsFiles : /\ SubSeq(f, 1, Len(rootDir)) = rootDir
                   /\ IsSuffix(TargetSegments(target), SubSeq(f, Len(rootDir) + 1, Len(f)))
                   /\ ~Excluded(f)}

\* null as a path
NoPath == <<>>

\* the paths resolveIncludePath may return.  The deep
\* search returns candidates[0], whichever file glob enumerates first.
resolveIncludePath(target, currentFile) ==
  IF At(target, 1) = "/"
  THEN IF existsSync(TargetSegments(target)) THEN {TargetSegments(target)} ELSE {NoPath}
  ELSE IF At(target, 1) \in {".", ".."}
  THEN LET res == ResolveSegments(dirname(currentFile), TargetSegments(target))
       IN IF existsSync(res) THEN {res} ELSE {NoPath}
  ELSE IF DeepSearch(target) # {} THEN DeepSearch(target) ELSE {NoPath}

\* fs.readFileSync(p, "utf-8"); ok = FALSE stands for the error it throws
\* (a directory).  The text of a scanned file is one opaque symbol.
readFileSync(p) ==
  IF p \in DOMAIN FileContent THEN [ok |-> TRUE, content |-> FileContent[p]]
  ELSE IF p \in FsFiles THEN [ok |-> TRUE, content |-> <<basename(p)>>]
  ELSE [ok |-> FALSE]

\* ------------------------------------------------------------ content model
Undefined == "undefined"

DefaultPriority == 100

HasChapter(chs, id) == \E k \in 1..Len(chs) : chs[k].id = id

\* this.chapters.get(id), as an index
ChapterIndex(chs, id) == CHOOSE k \in 1..Len(chs) : chs[k].id = id

HasSection(ch, title) == \E j \in 1..Len(ch.sections) : ch.sections[j].title = title

\* ch.sections.find((s) => s.title === title), as an index
SectionIndex(ch, title) ==
  Min({j \in 1..Len(ch.sections) : ch.sections[j].title = title})

\* ensureChapter where a later declaration replaces the chapter
ensureChapterOverwrites(chs, id, title, filePath) ==
  LET fresh == [filePath |-> filePath, id |-> id, priority |-> DefaultPriority,
                sections |-> <<>>, title |-> title]
  IN IF HasChapter(chs, id) THEN [chs EXCEPT ![ChapterIndex(chs, id)] = fresh]
     ELSE Append(chs, fresh)

ensureChapter(chs, id, title, filePath) ==
  IF HasChapter(chs, id) THEN chs
  ELSE Append(chs, [filePath |-> filePath, id |-> id, priority |-> DefaultPriority,
                    sections |-> <<>>, title |-> title])

\* ensureSection without the lookup: a header always pushes a section
ensureSectionAlways(chs, cid, title) ==
  IF ~HasChapter(chs, cid) THEN chs
  ELSE [chs EXCEPT ![ChapterIndex(chs, cid)].sections =
          Append(@, [blocks |-> <<>>, title |-> title])]

ensureSection(chs, cid, title) ==
  IF ~HasChapter(chs, cid) THEN chs
  ELSE LET k == ChapterIndex(chs, cid)
       IN IF HasSection(chs[k], title) THEN chs
          ELSE [chs EXCEPT ![k].sections = Append(@, [blocks |-> <<>>, title |-> title])]

\* addMarkdownBlock that always pushes a new block
addMarkdownBlockNoMerge(chs, cid, title, text) ==
  IF ~HasChapter(chs, cid) THEN chs
  ELSE LET with == ensureSection(chs, cid, title)
           k == ChapterIndex(with, cid)
           j == SectionIndex(with[k], title)
       IN [with EXCEPT ![k].sections[j].blocks =
             Append(@, [content |-> text, type |-> "markdown"])]

addMarkdownBlock(chs, cid, title, text) ==
  IF ~HasChapter(chs, cid) THEN chs
  ELSE LET with == ensureSection(chs, cid, title)
           k == ChapterIndex(with, cid)
           j == SectionIndex(with[k], title)
           blocks == with[k].sections[j].blocks
           n == Len(blocks)
       IN IF n > 0 /\ blocks[n].type = "markdown"
          THEN [with EXCEPT ![k].sections[j].blocks[n].content = @ \o <<NL>> \o text]
          ELSE [with EXCEPT ![k].sections[j].blocks =
                  Append(@, [content |-> text, type |-> "markdown"])]

\* addCodeBlock that opens a new tab group for every grouped block
addCodeBlockNoMerge(chs, cid, title, block, groupId) ==
  IF ~HasChapter(chs, cid) THEN chs
  ELSE LET with == ensureSection(chs, cid, title)
           k == ChapterIndex(with, cid)
           j == SectionIndex(with[k], title)
       IN IF groupId # Null /\ groupId # ""
          THEN [with EXCEPT ![k].sections[j].blocks =
                  Append(@, [groupId |-> groupId, tabs |-> <<block>>, type |-> "tabs"])]
          ELSE [with EXCEPT ![k].sections[j].blocks = Append(@, block)]

\* groupId is Null when the argument is omitted or undefined
addCodeBlock(chs, cid, title, block, groupId) ==
  IF ~HasChapter(chs, cid) THEN chs
  ELSE LET with == ensureSection(chs, cid, title)
           k == ChapterIndex(with, cid)
           j == SectionIndex(with[k], title)
           blocks == with[k].sections[j].blocks
           n == Len(blocks)
       IN IF groupId # Null /\ groupId # ""
          THEN IF n > 0 /\ blocks[n].type = "tabs" /\ blocks[n].groupId = groupId
               THEN [with EXCEPT ![k].sections[j].blocks[n].tabs = Append(@, block)]
               ELSE [with EXCEPT ![k].sections[j].blocks =
                       Append(@, [groupId |-> groupId, tabs |-> <<block>>, type |-> "tabs"])]
          ELSE [with EXCEPT ![k].sections[j].blocks = Append(@, block)]

\* the Code block of a capture
SnippetBlock(buffer, snippetId, filePath) ==
  [content |-> dedent(buffer), id |-> snippetId,
   language |-> getLanguageFromExtension(filePath),
   sourceFile |-> filePath, title |-> Undefined, type |-> "code"]

\* the Code block of an include
IncludeBlock(resolvedPath, content, options) ==
  [content |-> trim(content), id |-> "include-" \o basename(resolvedPath),
   language |-> getLanguageFromExtension(resolvedPath),
   sourceFile |-> resolvedPath,
   title |-> IF options.tabTitle \notin {Null, ""} THEN options.tabTitle
             ELSE basename(resolvedPath),
   type |-> "code"]

\* handleInclude that leaves an empty block where the target is missing
handleIncludePlaceholder(chs, chapterId, sectionTitle, resolvedPath, options) ==
  IF resolvedPath = NoPath
  THEN addCodeBlock(chs, chapterId, sectionTitle,
                    [content |-> <<>>, id |-> "include-missing", language |-> "",
                     sourceFile |-> NoPath, title |-> Undefined, type |-> "code"],
                    options.group)
  ELSE LET file == readFileSync(resolvedPath)
           content == IF options.strip THEN stripComments(file.content) ELSE file.content
       IN IF ~file.ok THEN chs
          ELSE addCodeBlock(chs, chapterId, sectionTitle,
                            IncludeBlock(resolvedPath, content, options), options.group)

\* handleInclude once resolveIncludePath has returned resolvedPath
handleInclude(chs, chapterId, sectionTitle, resolvedPath, options) ==
  IF resolvedPath = NoPath THEN chs
  ELSE LET file == readFileSync(resolvedPath)
           content == IF options.strip THEN stripComments(file.content) ELSE file.content
       IN IF ~file.ok THEN chs
          ELSE addCodeBlock(chs, chapterId, sectionTitle,
                            IncludeBlock(resolvedPath, content, options), options.group)

\* chapters.sort((a, b) => a.priority - b.priority): a stable sort
RECURSIVE InsertByPriority(_, _)
InsertByPriority(sorted, ch) ==
  IF Len(sorted) = 0 THEN <<ch>>
  ELSE IF sorted[Len(sorted)].priority <= ch.priority THEN Append(sorted, ch)
  ELSE Append(InsertByPriority(SubSeq(sorted, 1, Len(sorted) - 1), ch), sorted[Len(sorted)])

RECURSIVE SortByPriority(_)
SortByPriority(chs) ==
  IF Len(chs) = 0 THEN <<>>
  ELSE InsertByPriority(SortByPriority(SubSeq(chs, 1, Len(chs) - 1)), chs[Len(chs)])

\* -------------------------------------------------------- navigation tree
\* A display name (label, title) is a sequence of symbols, a folder path the
\* sequence of its segments; the root's fullPath "" is <<>>.  Nodes are kept
\* by fullPath, chapters by id, so that every holder of a node or a chapter
\* sees its updates, as holders of the object do.

\* an optional path: undefined, or the path
NoDir == [defined |-> FALSE, path |-> <<>>]
Dir(p) == [defined |-> TRUE, path |-> p]

\* !dir, for an optional path: undefined or ""
Falsy(dir) == ~dir.defined \/ dir.path = <<>>

createNode(segment, fullPath, sourcePath) ==
  [chapters |-> <<>>, children |-> <<>>, files |-> <<>>, fullPath |-> fullPath,
   label |-> <<segment>>, renderList |-> <<>>, segment |-> segment,
   sourcePath |-> sourcePath]

\* names that end with ".md"
MdNames == {"Token.md"}

\* relativePath.split("/").filter((p) => p && !p.endsWith(".md"))
PathParts(relativePath) == SelectSeq(relativePath, LAMBDA x : x # "" /\ x \notin MdNames)

\* the loop of traversePath: the nodes once the first k parts exist
RECURSIVE EnsureNodes(_, _, _)
EnsureNodes(ns, parts, k) ==
  IF k = 0 THEN ns
  ELSE LET before == EnsureNodes(ns, parts, k - 1)
           currentPath == SubSeq(parts, 1, k)
           parent == SubSeq(parts, 1, k - 1)
       IN IF currentPath \in DOMAIN before THEN before
          ELSE [before EXCEPT ![parent].children = Append(@, parts[k])] @@
               (currentPath :> createNode(parts[k], currentPath,
                                          ns[<<>>].sourcePath \o currentPath))

\* traversePath returns the node PathParts(relativePath) of these nodes
traversePath(ns, relativePath) ==
  EnsureNodes(ns, PathParts(relativePath), Len(PathParts(relativePath)))

addChapter(ns, chapter, relativePath) ==
  LET with == traversePath(ns, relativePath)
      node == PathParts(relativePath)
  IN [with EXCEPT ![node].sourcePath = dirname(chapter.filePath),
                  ![node].chapters = Append(@, chapter.id)]

\* path.parse(path.basename(filePath)).name
FileId(filePath) == IF basename(filePath) = "Token.md" THEN "Token" ELSE basename(filePath)

addFile(ns, filePath) ==
  LET with == traversePath(ns, filePath)
      node == PathParts(filePath)
  IN [with EXCEPT ![node].files = Append(@, filePath)]

\* String.prototype.localeCompare over display names: symbols are compared by
\* their place in the collation, names symbol by symbol
Collation ==
  << " ", "Access", "advanced", "Basics", "beginner", "Confidential", "Counter",
     "DAO", "ERC20", "Governance", "NFT", "root", "Systems", "Token", "tokens", "Tokens",
     "voting" >>

Rank(x) == CHOOSE k \in 1..Len(Collation) : Collation[k] = x

RECURSIVE localeCompare(_, _)
localeCompare(a, b) ==
  IF Len(a) = 0 /\ Len(b) = 0 THEN 0
  ELSE IF Len(a) = 0 THEN -1
  ELSE IF Len(b) = 0 THEN 1
  ELSE IF Rank(a[1]) < Rank(b[1]) THEN -1
  ELSE IF Rank(a[1]) > Rank(b[1]) THEN 1
  ELSE localeCompare(Tail(a), Tail(b))

\* The tree pass works on a record t of the objects it may change:
\*   t.nodes (fullPath -> node), t.docs (id -> chapter), t.navFiles (path -> file)
getItemName(t, item) ==
  IF item.type = "node" THEN t.nodes[item.data].label
  ELSE IF item.type = "chapter" THEN t.docs[item.data].title
  ELSE IF item.type = "file" THEN t.navFiles[item.data].title
  ELSE <<>>

\* the comparator of restItems.sort
CompareItems(t, a, b) ==
  IF a.type = "node" /\ b.type # "node" THEN -1
  ELSE IF a.type # "node" /\ b.type = "node" THEN 1
  ELSE localeCompare(getItemName(t, a), getItemName(t, b))

\* Array.prototype.sort with that comparator: a stable sort
RECURSIVE InsertItem(_, _, _)
InsertItem(t, sorted, item) ==
  IF Len(sorted) = 0 THEN <<item>>
  ELSE IF CompareItems(t, sorted[Len(sorted)], item) <= 0 THEN Append(sorted, item)
  ELSE Append(InsertItem(t, SubSeq(sorted, 1, Len(sorted) - 1), item), sorted[Len(sorted)])

\* restItems left in the order of the Map
SortItemsKeepsOrder(t, items) == items

RECURSIVE SortItems(_, _)
SortItems(t, items) ==
  IF Len(items) = 0 THEN <<>>
  ELSE InsertItem(t, SortItems(t, SubSeq(items, 1, Len(items) - 1)), items[Len(items)])

\* Map.prototype.set on the list of [key, item] pairs of `available`
MapSet(entries, key, item) ==
  IF \E k \in 1..Len(entries) : entries[k].key = key
  THEN [k \in 1..Len(entries) |->
          IF entries[k].key = key THEN [key |-> key, item |-> item] ELSE entries[k]]
  ELSE Append(entries, [key |-> key, item |-> item])

RECURSIVE MapSetAll(_, _)
MapSetAll(entries, pairs) ==
  IF Len(pairs) = 0 THEN entries
  ELSE MapSetAll(MapSet(entries, pairs[1].key, pairs[1].item), Tail(pairs))

\* 3. Map Available Items
Available(t, n) ==
  LET node == t.nodes[n]
  IN MapSetAll(<<>>,
       [k \in 1..Len(node.children) |->
          [key |-> node.children[k], item |-> [type |-> "node", data |-> Append(n, node.children[k])]]]
       \o [k \in 1..Len(node.chapters) |->
          [key |-> node.chapters[k], item |-> [type |-> "chapter", data |-> node.chapters[k]]]]
       \o [k \in 1..Len(node.files) |->
          [key |-> FileId(node.files[k]), item |-> [type |-> "file", data |-> node.files[k]]]])

\* if (!ch.writeDir) ch.writeDir = node.fullPath, for the chapters of the node
DefaultWriteDirs(t, n) ==
  [t EXCEPT !.docs =
     [id \in DOMAIN t.docs |->
        IF (\E k \in 1..Len(t.nodes[n].chapters) : t.nodes[n].chapters[k] = id)
           /\ Falsy(t.docs[id].writeDir)
        THEN [t.docs[id] EXCEPT !.writeDir = Dir(n)]
        ELSE t.docs[id]]]

\* A configuration value is a string (kind "string", its text in title) or an
\* object (kind "object"); an absent title is <<>>, an absent type "".
ConfigTitle(title) == [kind |-> "string", title |-> title, hidden |-> FALSE, type |-> ""]

ConfigObject(title, hidden, type) ==
  [kind |-> "object", title |-> title, hidden |-> hidden, type |-> type]

applyConfig(t, item, config) ==
  IF config.kind = "object" /\ config.hidden THEN t
  ELSE IF config.title = <<>> THEN t
  ELSE IF item.type = "node" THEN [t EXCEPT !.nodes[item.data].label = config.title]
  ELSE IF item.type = "chapter" THEN [t EXCEPT !.docs[item.data].title = config.title]
  ELSE IF item.type = "file" THEN [t EXCEPT !.navFiles[item.data].title = config.title]
  ELSE t

\* the descent that passes over a part that is no child
RECURSIVE DescendPastMissing(_, _, _)
DescendPastMissing(t, currentNode, parts) ==
  IF Len(parts) = 0 THEN [found |-> TRUE, node |-> currentNode]
  ELSE IF ~\E k \in 1..Len(t.nodes[currentNode].children) :
             t.nodes[currentNode].children[k] = parts[1]
  THEN DescendPastMissing(t, currentNode, Tail(parts))
  ELSE DescendPastMissing(t, Append(currentNode, parts[1]), Tail(parts))

\* the folder findAndDetachChapter reaches from startNode along parts
\* ("found" FALSE where a part is no child)
RECURSIVE Descend(_, _, _)
Descend(t, currentNode, parts) ==
  IF Len(parts) = 0 THEN [found |-> TRUE, node |-> currentNode]
  ELSE IF ~\E k \in 1..Len(t.nodes[currentNode].children) :
             t.nodes[currentNode].children[k] = parts[1]
  THEN [found |-> FALSE, node |-> currentNode]
  ELSE Descend(t, Append(currentNode, parts[1]), Tail(parts))

\* findAndDetachChapter without the detach: the chapter stays where it was
findAndKeepChapter(t, startNode, pathStr) ==
  LET parts == SubSeq(pathStr, 1, Len(pathStr) - 1)
      chapterId == pathStr[Len(pathStr)]
      reached == Descend(t, startNode, parts)
      held == t.nodes[reached.node].chapters
  IN IF ~reached.found \/ ~\E k \in 1..Len(held) : held[k] = chapterId
     THEN [found |-> FALSE, t |-> t]
     ELSE [found |-> TRUE, chapter |-> chapterId, t |-> t]

\* findAndDetachChapter: the chapter found (found FALSE for null) and the
\* objects after the detach
findAndDetachChapter(t, startNode, pathStr) ==
  LET parts == SubSeq(pathStr, 1, Len(pathStr) - 1)
      chapterId == pathStr[Len(pathStr)]
      reached == Descend(t, startNode, parts)
      currentNode == reached.node
      held == t.nodes[currentNode].chapters
  IN IF ~reached.found \/ ~\E k \in 1..Len(held) : held[k] = chapterId
     THEN [found |-> FALSE, t |-> t]
     ELSE [found |-> TRUE, chapter |-> chapterId,
           t |-> [t EXCEPT
                    !.nodes[currentNode].chapters = SelectSeq(@, LAMBDA c : c # chapterId),
                    !.nodes[currentNode].renderList =
                      SelectSeq(@, LAMBDA i : ~(i.type = "chapter" /\ i.data = chapterId))]]

\* keys that start with "---"
SeparatorKeys == {"---", "---2"}

\* the keys the loop over the configuration skips
RestKeys == {"...", "...rest"}

HasKey(available, key) == \E i \in 1..Len(available) : available[i].key = key

GetItem(available, key) ==
  available[CHOOSE i \in 1..Len(available) : available[i].key = key].item

\* the turn of the loop without hoistedChapter.writeDir = node.fullPath
ProcessKeyKeepsWriteDir(s, n, available, key, config) ==
  IF Len(key) = 1 /\ key[1] \in RestKeys THEN s
  ELSE IF key[1] \in SeparatorKeys \/ (config.kind = "object" /\ config.type = "separator")
  THEN [s EXCEPT !.renderList = Append(@, [type |-> "separator", title |-> config.title])]
  ELSE IF Len(key) = 1 /\ HasKey(available, key[1])
  THEN LET item == GetItem(available, key[1])
       IN [t |-> applyConfig(s.t, item, config),
           renderList |-> Append(s.renderList, item),
           usedKeys |-> s.usedKeys \cup {key[1]}]
  ELSE IF Len(key) > 1
  THEN LET hoisted == findAndDetachChapter(s.t, n, key)
       IN IF hoisted.found
          THEN LET item == [type |-> "chapter", data |-> hoisted.chapter]
                   moved == hoisted.t
               IN [s EXCEPT !.t = applyConfig(moved, item, config),
                            !.renderList = Append(@, item)]
          ELSE s
  ELSE s

\* One turn of the loop of "4. Process Meta Keys".  A key is the sequence of
\* the parts "/" splits it into; s holds the objects (s.t), the renderList
\* and the usedKeys so far.
ProcessKey(s, n, available, key, config) ==
  IF Len(key) = 1 /\ key[1] \in RestKeys THEN s
  ELSE IF key[1] \in SeparatorKeys \/ (config.kind = "object" /\ config.type = "separator")
  THEN [s EXCEPT !.renderList = Append(@, [type |-> "separator", title |-> config.title])]
  ELSE IF Len(key) = 1 /\ HasKey(available, key[1])
  THEN LET item == GetItem(available, key[1])
       IN [t |-> applyConfig(s.t, item, config),
           renderList |-> Append(s.renderList, item),
           usedKeys |-> s.usedKeys \cup {key[1]}]
  ELSE IF Len(key) > 1
  THEN LET hoisted == findAndDetachChapter(s.t, n, key)
       IN IF hoisted.found
          THEN LET item == [type |-> "chapter", data |-> hoisted.chapter]
                   moved == [hoisted.t EXCEPT !.docs[hoisted.chapter].writeDir = Dir(n)]
               IN [s EXCEPT !.t = applyConfig(moved, item, config),
                            !.renderList = Append(@, item)]
          ELSE s
  ELSE s

RECURSIVE ProcessKeys(_, _, _, _)
ProcessKeys(s, n, available, entries) ==
  IF Len(entries) = 0 THEN s
  ELSE ProcessKeys(ProcessKey(s, n, available, entries[1].key, entries[1].config),
                   n, available, Tail(entries))

\* isEmpty of "5. Append Rest"
isEmpty(t, childNode) ==
  /\ Len(t.nodes[childNode].children) = 0
  /\ Len(t.nodes[childNode].chapters) = 0
  /\ Len(t.nodes[childNode].files) = 0

\* the restItems before the sort
RestItems(t, available, usedKeys) ==
  LET kept == SelectSeq(available,
                LAMBDA e : e.key \notin usedKeys
                           /\ ~(e.item.type = "node" /\ isEmpty(t, e.item.data)))
  IN [i \in 1..Len(kept) |-> kept[i].item]

\* processNode where a key in separator form also consumes the item it names
processNodeSeparatorConsumes(t, n, meta) ==
  LET t1 == DefaultWriteDirs(t, n)
      available == Available(t1, n)
      named == {meta[i].key[1] : i \in {j \in 1..Len(meta) :
                  meta[j].config.kind = "object" /\ meta[j].config.type = "separator"}}
      s == ProcessKeys([t |-> t1, renderList |-> <<>>, usedKeys |-> named], n, available, meta)
      restItems == SortItems(s.t, RestItems(s.t, available, s.usedKeys))
  IN [s.t EXCEPT !.nodes[n].renderList = s.renderList \o restItems]

\* processNode once the children are done (steps 3 to 5), with meta the
\* entries read in step 2
processNode(t, n, meta) ==
  LET t1 == DefaultWriteDirs(t, n)
      available == Available(t1, n)
      s == ProcessKeys([t |-> t1, renderList |-> <<>>, usedKeys |-> {}], n, available, meta)
      restItems == SortItems(s.t, RestItems(s.t, available, s.usedKeys))
  IN [s.t EXCEPT !.nodes[n].renderList = s.renderList \o restItems]

\* the order in which the calls of processNode reach step 2: children first
RECURSIVE PostOrder(_, _)
RECURSIVE PostOrderAll(_, _, _)
PostOrder(ns, n) == Append(PostOrderAll(ns, n, ns[n].children), n)

PostOrderAll(ns, n, segments) ==
  IF Len(segments) = 0 THEN <<>>
  ELSE PostOrder(ns, Append(n, segments[1])) \o PostOrderAll(ns, n, Tail(segments))

\* getCommonPrefix: the segments all the paths start with
RECURSIVE CommonLen(_, _)
CommonLen(paths, i) ==
  IF i <= Len(paths[1]) /\ \A p \in 1..Len(paths) : Len(paths[p]) >= i /\ paths[p][i] = paths[1][i]
  THEN CommonLen(paths, i + 1)
  ELSE i - 1

getCommonPrefix(paths) ==
  IF Len(paths) = 0 THEN <<>> ELSE SubSeq(paths[1], 1, CommonLen(paths, 1))

\* relativeDir.slice(commonPrefix.length), the leading separator dropped
CleanDir(relativeDir, prefix) == SubSeq(relativeDir, Len(prefix) + 1, Len(relativeDir))

\* renderTreeItems with the link prefix built from the label of the node
RECURSIVE renderTreeItemsByLabel(_, _, _, _)
renderTreeItemsByLabel(t, items, depth, linkPrefix) ==
  IF Len(items) = 0 THEN <<>>
  ELSE LET item == items[1]
           out ==
             IF item.type = "separator"
             THEN << [depth |-> depth, kind |-> "separator",
                      text |-> IF item.title = <<>> THEN <<"---">> ELSE item.title, url |-> <<>>] >>
             ELSE IF item.type = "node"
             THEN << [depth |-> depth, kind |-> IF depth = 0 THEN "heading" ELSE "item",
                      text |-> t.nodes[item.data].label, url |-> <<>>] >>
                  \o renderTreeItemsByLabel(t, t.nodes[item.data].renderList, depth + 1,
                                     linkPrefix \o t.nodes[item.data].label)
             ELSE IF item.type = "chapter"
             THEN << [depth |-> depth, kind |-> "link", text |-> t.docs[item.data].title,
                      url |-> Append(linkPrefix, item.data \o ".md")] >>
             ELSE <<>>
       IN out \o renderTreeItemsByLabel(t, Tail(items), depth, linkPrefix)

\* renderTreeItems: the lines of the table of contents, each with its depth,
\* its kind ("separator" ### , "heading" ## , "item" * label, "link" * [text](url)),
\* its text and, for a link, its url as a path
RECURSIVE renderTreeItems(_, _, _, _)
renderTreeItems(t, items, depth, linkPrefix) ==
  IF Len(items) = 0 THEN <<>>
  ELSE LET item == items[1]
           out ==
             IF item.type = "separator"
             THEN << [depth |-> depth, kind |-> "separator",
                      text |-> IF item.title = <<>> THEN <<"---">> ELSE item.title, url |-> <<>>] >>
             ELSE IF item.type = "node"
             THEN << [depth |-> depth, kind |-> IF depth = 0 THEN "heading" ELSE "item",
                      text |-> t.nodes[item.data].label, url |-> <<>>] >>
                  \o renderTreeItems(t, t.nodes[item.data].renderList, depth + 1,
                                     Append(linkPrefix, t.nodes[item.data].segment))
             ELSE IF item.type = "chapter"
             THEN << [depth |-> depth, kind |-> "link", text |-> t.docs[item.data].title,
                      url |-> Append(linkPrefix, item.data \o ".md")] >>
             ELSE <<>>
       IN out \o renderTreeItems(t, Tail(items), depth, linkPrefix)

\* ------------------------------------------------------------- input lines
Chapter(id, title) == <<"///", " ", "@chapter:", " ", id, " ", Quote, title, Quote>>
Section(title) == <<"///", " ", "@section:", " ", Quote, title, Quote>>
Priority(v) == <<"///", " ", "@priority:", " ", v>>
Include(target) == <<"///", " ", "@include:", " ", Quote>> \o target \o <<Quote>>
IncludeWith(target, opts) == Include(target) \o <<" ", "{", opts, "}">>
Start(id) == <<" ", " ", "//", " ", "@start:", " ", id>>
End(id) == <<" ", " ", "//", " ", "@end:", " ", id>>
Ignore == <<" ", " ", "//", " ", "@ignore">>
Hello == <<"///", " ", "Hello", " ", "world">>
More == <<"///", " ", " ", "More">>
ConstX == <<"const", " ", "x", " ", "=", " ", "1;">>
Skip == <<" ", " ", " ", " ", "this.skip();">>
Blank == <<>>

ScanLines ==
  { Chapter("demo", "Demo"), Chapter("other", "Other"), Section("Intro"),
    Priority("1"), Priority("abc"),
    IncludeWith(<<"B.sol">>, "\"group\":\"g\""), Include(<<"Missing.sol">>),
    IncludeWith(<<"B.sol">>, "group:g"),
    Start("snip1"), Start("snip2"), End("snip1"), End("snip2"),
    Ignore, Hello, More, ConstX, <<" ", " ">> \o ConstX, Skip, Blank }

\* the file of the worked example, and its lines
DemoFile ==
  << Chapter("demo", "Demo"), Section("Intro"), Hello,
     <<"//", " ", "@start:", " ", "snip1">>, ConstX,
     <<"//", " ", "@end:", " ", "snip1">> >>

DemoLines == {DemoFile[k] : k \in 1..Len(DemoFile)}

\* include directives of group "g" whose target resolves to a file
GroupIncludes ==
  { IncludeWith(<<"B.sol">>, "\"group\":\"g\""),
    IncludeWith(<<"..", "/", "contracts", "/", "C.sol">>, "\"group\":\"g\""),
    IncludeWith(<<"S.sol">>, "\"group\":\"g\",\"tabTitle\":\"T\"") }

TabLines ==
  GroupIncludes \cup
  { Chapter("demo", "Demo"), Include(<<"B.sol">>),
    IncludeWith(<<"B.sol">>, "\"group\":\"h\""), Hello }

IgnoreLines == {Chapter("demo", "Demo"), Start("snip1"), Ignore, Skip, ConstX, End("snip1")}

\* includes of the scanned files themselves
SelfLines ==
  { Chapter("demo", "Demo"), Chapter("other", "Other"),
    Include(<<"a.test.ts">>), Include(<<"A.sol">>),
    IncludeWith(<<"a.test.ts">>, "\"group\":\"g\""), Start("snip1") }

\* every kind of line, to be met inside a capture or outside one
CaptureLines ==
  { Chapter("demo", "Demo"), Section("Intro"), Priority("1"), Include(<<"B.sol">>),
    Start("snip1"), End("snip1"), End("snip2"), Ignore, Hello, ConstX }

\* a chapter declared twice, with another title the second time
RedeclareLines == {Chapter("demo", "Demo"), Chapter("demo", "Again"), Section("Intro"), Hello}

\* lines of files that two instances scan
TwiceLines ==
  { Chapter("demo", "Demo"), Chapter("other", "Other"), Priority("1"), Hello,
    Start("snip1"), ConstX, End("snip1"),
    IncludeWith(<<"S.sol">>, "\"group\":\"g\",\"tabTitle\":\"T\"") }

\* lines of a file whose captures are cut short
FlushLines ==
  { Chapter("demo", "Demo"), Start("snip1"), Start("snip2"), <<" ", " ">> \o ConstX,
    IncludeWith(<<"B.sol">>, "\"group\":\"g\""), Include(<<"Missing.sol">>), End("snip1") }

\* section headers naming a title again, in this chapter or in another one
SectionLines ==
  { Chapter("demo", "Demo"), Chapter("other", "Other"), Section("Intro"),
    Section("Overview"), Hello }

\* includes by bare file name: a file outside the include globs, one inside
\* the exclude globs, one found twice, one found nowhere
ResolveLines ==
  { Chapter("demo", "Demo"), Include(<<"S.sol">>), Include(<<"N.sol">>), Include(<<"B.sol">>),
    Include(<<"Missing.sol">>) }

AllLines ==
  SelfLines \cup ResolveLines \cup SectionLines \cup ScanLines \cup DemoLines \cup TabLines \cup IgnoreLines \cup RedeclareLines \cup TwiceLines
  \cup FlushLines

\* the regular expressions of the loop body applied to the trimmed line, for
\* every input line
Matched ==
  [l \in AllLines |->
     LET trimmed == trim(l)
     IN [chapterMatch |-> chapterMatch(trimmed),
         sectionMatch |-> sectionMatch(trimmed),
         priorityMatch |-> priorityMatch(trimmed),
         includeMatch |-> includeMatch(trimmed),
         startMatch |-> startMatch(trimmed),
         endMatch |-> endMatch(trimmed),
         ignoreMatch |-> ignoreMatch(trimmed),
         narrativeMatch |-> narrativeMatch(trimmed)]]

\* ------------------------------------------------------------------ state
VARIABLES
  pc,                   \* "scan": inside the loop of parse(); "returned"; "thrown"
  files,                \* the files glob returned to parse()
  fileIdx,              \* index in files of the file processFile is reading
  chapters,             \* this.chapters, in insertion order
  currentChapterId,     \* locals of processFile
  currentSectionTitle,
  isCapturingCode,
  activeSnippetId,
  codeBuffer,
  read,                 \* per file, the lines the loop of processFile has handled
  branch,               \* the branch of the loop body that handled the last one
  nLines,               \* lines read so far
  limit,                \* lines the scan may read
  result,               \* what parse() returned
  run,                  \* which DocParser instance is at work: the first or the second
  earlier,              \* what the first instance read and returned, once it has
  helper,               \* the helper called on its own: "none" before the call
  input,                \* its argument
  output,               \* what it returned
  rpc,                  \* render(): "idle" before the call, then the step it is at
  toRender,             \* its argument chapters, as ids in the order given
  docs,                 \* the chapter objects, by id
  metaFiles,            \* the _meta.json files on disk, by folder
  commonPrefix,
  nodes,                \* the nodes of the NavTree, by fullPath
  navFiles,             \* the NavFile objects, by path
  queue,                \* the nodes processNode has still to finish, in order
  cursor,               \* the index of the loop render() is in
  outFiles,             \* the chapter files under outDir, by path
  summary,              \* the lines written to SUMMARY.md after the header
  step,                 \* createProject(): "none" before the call, then where it is
  args,                 \* what getArguments() returned: install and git
  called                \* the functions createProject() has called, in order

scanVars == <<pc, files, fileIdx, chapters, currentChapterId, currentSectionTitle,
              isCapturingCode, activeSnippetId, codeBuffer, read, branch, nLines, limit, result,
              run, earlier>>

createVars == <<step, args, called>>

\* what neither the scan nor render() touches
helperVars == <<helper, input, output, createVars>>

\* createProject() not called
CreateIdle ==
  /\ step = "none"
  /\ args = [install |-> FALSE, git |-> FALSE]
  /\ called = <<>>

renderVars == <<rpc, toRender, docs, metaFiles, commonPrefix, nodes, navFiles, queue, cursor,
                outFiles, summary>>

vars == <<scanVars, helperVars, renderVars>>

\* an empty Map, or no object yet
Empty == [x \in {} |-> x]

\* render() not called
RenderIdle ==
  /\ rpc = "idle"
  /\ toRender = <<>>
  /\ docs = Empty
  /\ metaFiles = Empty
  /\ commonPrefix = <<>>
  /\ nodes = Empty
  /\ navFiles = Empty
  /\ queue = <<>>
  /\ cursor = 0
  /\ outFiles = Empty
  /\ summary = <<>>

filePath == files[fileIdx]

\* the line the loop body handled last
line == read[fileIdx][Len(read[fileIdx])]

\* the first instance is at work, or none yet
FirstRun == run = 1 /\ earlier = [read |-> <<>>, result |-> <<>>]

\* the locals of processFile as a fresh call has them
FreshLocals ==
  /\ currentChapterId = Null
  /\ currentSectionTitle = <<"Overview">>
  /\ isCapturingCode = FALSE
  /\ activeSnippetId = Null
  /\ codeBuffer = <<>>

ScanInit(found) ==
  /\ pc = "scan"
  /\ files = found
  /\ fileIdx = 1
  /\ chapters = <<>>
  /\ FreshLocals
  /\ read = [k \in 1..Len(found) |-> <<>>]
  /\ branch = "none"
  /\ nLines = 0
  /\ result = <<>>
  /\ FirstRun
  /\ CreateIdle
  /\ helper = "none"
  /\ input = <<>>
  /\ output = <<>>
  /\ RenderIdle

\* LineKind where a "///" line counts as narrative only inside a chapter
LineKindNarrativeInChapter(l, chapterId) ==
  LET m == Matched[l]
  IN IF m.chapterMatch.ok THEN "chapter"
     ELSE IF m.sectionMatch.ok /\ chapterId # Null THEN "section"
     ELSE IF m.priorityMatch.ok /\ chapterId # Null THEN "priority"
     ELSE IF m.includeMatch.ok /\ chapterId # Null THEN "include"
     ELSE IF m.startMatch.ok THEN "start"
     ELSE IF m.endMatch.ok THEN "end"
     ELSE IF m.ignoreMatch THEN "ignore"
     ELSE IF m.narrativeMatch /\ chapterId # Null THEN "narrative"
     ELSE "content"

\* which branch of the loop body takes the line
LineKind(l, chapterId) ==
  LET m == Matched[l]
  IN IF m.chapterMatch.ok THEN "chapter"
     ELSE IF m.sectionMatch.ok /\ chapterId # Null THEN "section"
     ELSE IF m.priorityMatch.ok /\ chapterId # Null THEN "priority"
     ELSE IF m.includeMatch.ok /\ chapterId # Null THEN "include"
     ELSE IF m.startMatch.ok THEN "start"
     ELSE IF m.endMatch.ok THEN "end"
     ELSE IF m.ignoreMatch THEN "ignore"
     ELSE IF m.narrativeMatch THEN "narrative"
     ELSE "content"

\* an iteration that leaves an include directive to be read again
ReadsIncludeAgain(l, b) ==
  /\ pc = "scan"
  /\ nLines < limit
  /\ LineKind(l, currentChapterId) = b
  /\ read' = [read EXCEPT ![fileIdx] = Append(@, l)]
  /\ branch' = b
  /\ nLines' = IF b = "include" THEN nLines ELSE nLines + 1
  /\ UNCHANGED <<files, fileIdx, limit, result, run, earlier, helperVars, renderVars>>

\* one iteration of the loop reads line l and takes branch b
Reads(l, b) ==
  /\ pc = "scan"
  /\ nLines < limit
  /\ LineKind(l, currentChapterId) = b
  /\ read' = [read EXCEPT ![fileIdx] = Append(@, l)]
  /\ branch' = b
  /\ nLines' = nLines + 1
  /\ UNCHANGED <<files, fileIdx, limit, result, run, earlier, helperVars, renderVars>>

\* A. Chapter, with the section context set back to "Overview"
ChapterLineResetsSection(l) ==
  LET m == Matched[l].chapterMatch
  IN /\ Reads(l, "chapter")
     /\ currentChapterId' = m.id
     /\ currentSectionTitle' = <<"Overview">>
     /\ chapters' = ensureChapter(chapters, m.id, m.title, filePath)
     /\ UNCHANGED <<pc, isCapturingCode, activeSnippetId, codeBuffer>>

\* A. Chapter
ChapterLine(l) ==
  LET m == Matched[l].chapterMatch
  IN /\ Reads(l, "chapter")
     /\ currentChapterId' = m.id
     /\ chapters' = ensureChapter(chapters, m.id, m.title, filePath)
     /\ UNCHANGED <<pc, currentSectionTitle, isCapturingCode, activeSnippetId, codeBuffer>>

\* B. Section
SectionLine(l) ==
  LET m == Matched[l].sectionMatch
  IN /\ Reads(l, "section")
     /\ currentSectionTitle' = m.title
     /\ chapters' = ensureSection(chapters, currentChapterId, m.title)
     /\ UNCHANGED <<pc, currentChapterId, isCapturingCode, activeSnippetId, codeBuffer>>

\* C. Priority
PriorityLine(l) ==
  LET m == Matched[l].priorityMatch
  IN /\ Reads(l, "priority")
     /\ chapters' = IF HasChapter(chapters, currentChapterId)
                    THEN [chapters EXCEPT ![ChapterIndex(chapters, currentChapterId)].priority =
                            parseInt(m.value)]
                    ELSE chapters
     /\ UNCHANGED <<pc, currentChapterId, currentSectionTitle, isCapturingCode,
                    activeSnippetId, codeBuffer>>

\* the include branch without its flush: the open capture is dropped
FlushedForIncludeDropped == chapters

\* the chapters after "Flush existing code buffer" of the include branch
FlushedForInclude ==
  IF isCapturingCode /\ activeSnippetId # Null
  THEN addCodeBlock(chapters, currentChapterId, currentSectionTitle,
                    SnippetBlock(codeBuffer, activeSnippetId, filePath), Null)
  ELSE chapters

\* D. Include, with the group of the options left out
IncludeLineUngrouped(l) ==
  LET m == Matched[l].includeMatch
      options == IF m.rawOptions # <<>> THEN JSONparse(m.rawOptions) ELSE OptNone
  IN /\ Reads(l, "include")
     /\ IF ~options.ok
        THEN /\ pc' = "thrown"
             /\ UNCHANGED <<chapters, currentChapterId, currentSectionTitle,
                            isCapturingCode, activeSnippetId, codeBuffer>>
        ELSE /\ \E resolvedPath \in resolveIncludePath(m.targetPath, filePath) :
                  chapters' = handleInclude(FlushedForInclude, currentChapterId,
                                            currentSectionTitle, resolvedPath,
                                            [options EXCEPT !.group = Null])
             /\ IF isCapturingCode /\ activeSnippetId # Null
                THEN isCapturingCode' = FALSE /\ activeSnippetId' = Null /\ codeBuffer' = <<>>
                ELSE UNCHANGED <<isCapturingCode, activeSnippetId, codeBuffer>>
             /\ UNCHANGED <<pc, currentChapterId, currentSectionTitle>>

\* D. Include
IncludeLine(l) ==
  LET m == Matched[l].includeMatch
      options == IF m.rawOptions # <<>> THEN JSONparse(m.rawOptions) ELSE OptNone
  IN /\ Reads(l, "include")
     /\ IF ~options.ok
        THEN \* JSON.parse throws; nothing catches it before parse() rejects
             /\ pc' = "thrown"
             /\ UNCHANGED <<chapters, currentChapterId, currentSectionTitle,
                            isCapturingCode, activeSnippetId, codeBuffer>>
        ELSE /\ \E resolvedPath \in resolveIncludePath(m.targetPath, filePath) :
                  chapters' = handleInclude(FlushedForInclude, currentChapterId,
                                            currentSectionTitle, resolvedPath, options)
             /\ IF isCapturingCode /\ activeSnippetId # Null
                THEN isCapturingCode' = FALSE /\ activeSnippetId' = Null /\ codeBuffer' = <<>>
                ELSE UNCHANGED <<isCapturingCode, activeSnippetId, codeBuffer>>
             /\ UNCHANGED <<pc, currentChapterId, currentSectionTitle>>

\* E. Start Code without the flush: the earlier capture is dropped
StartLineDropsBuffer(l) ==
  /\ Reads(l, "start")
  /\ isCapturingCode' = TRUE
  /\ activeSnippetId' = Matched[l].startMatch.id
  /\ codeBuffer' = <<>>
  /\ UNCHANGED <<pc, chapters, currentChapterId, currentSectionTitle>>

\* E. Start Code
StartLine(l) ==
  LET m == Matched[l].startMatch
  IN /\ Reads(l, "start")
     /\ chapters' = IF isCapturingCode /\ activeSnippetId # Null /\ currentChapterId # Null
                    THEN addCodeBlock(chapters, currentChapterId, currentSectionTitle,
                                      SnippetBlock(codeBuffer, activeSnippetId, filePath), Null)
                    ELSE chapters
     /\ isCapturingCode' = TRUE
     /\ activeSnippetId' = m.id
     /\ codeBuffer' = <<>>
     /\ UNCHANGED <<pc, currentChapterId, currentSectionTitle>>

\* F. End Code
EndLine(l) ==
  LET m == Matched[l].endMatch
  IN /\ Reads(l, "end")
     /\ IF isCapturingCode /\ activeSnippetId = m.id /\ currentChapterId # Null
        THEN /\ chapters' = addCodeBlock(chapters, currentChapterId, currentSectionTitle,
                                         SnippetBlock(codeBuffer, activeSnippetId, filePath), Null)
             /\ isCapturingCode' = FALSE
             /\ activeSnippetId' = Null
             /\ codeBuffer' = <<>>
        ELSE UNCHANGED <<chapters, isCapturingCode, activeSnippetId, codeBuffer>>
     /\ UNCHANGED <<pc, currentChapterId, currentSectionTitle>>

\* G. Content without the ignore test: the marker is captured like any line
IgnoreLineCaptured(l) ==
  /\ Reads(l, "ignore")
  /\ codeBuffer' = IF isCapturingCode THEN Append(codeBuffer, l) ELSE codeBuffer
  /\ UNCHANGED <<pc, chapters, currentChapterId, currentSectionTitle, isCapturingCode,
                 activeSnippetId>>

\* G. Content: the ignore marker
IgnoreLine(l) ==
  /\ Reads(l, "ignore")
  /\ UNCHANGED <<pc, chapters, currentChapterId, currentSectionTitle, isCapturingCode,
                 activeSnippetId, codeBuffer>>

\* G. Content: a "///" line
NarrativeLine(l) ==
  /\ Reads(l, "narrative")
  /\ chapters' = IF currentChapterId # Null
                 THEN addMarkdownBlock(chapters, currentChapterId, currentSectionTitle,
                                       narrativeText(l))
                 ELSE chapters
  /\ UNCHANGED <<pc, currentChapterId, currentSectionTitle, isCapturingCode,
                 activeSnippetId, codeBuffer>>

\* G. Content: any other line
ContentLine(l) ==
  /\ Reads(l, "content")
  /\ codeBuffer' = IF isCapturingCode THEN Append(codeBuffer, l) ELSE codeBuffer
  /\ UNCHANGED <<pc, chapters, currentChapterId, currentSectionTitle, isCapturingCode,
                 activeSnippetId>>

\* the next file scanned with the locals the last file left
NextFileKeepsContext ==
  /\ pc = "scan"
  /\ fileIdx < Len(files)
  /\ fileIdx' = fileIdx + 1
  /\ branch' = "eof"
  /\ UNCHANGED <<pc, files, chapters, read, nLines, limit, result, run, earlier,
                 helperVars, renderVars, currentChapterId, currentSectionTitle,
                 isCapturingCode, activeSnippetId, codeBuffer>>

\* the loop of processFile runs out of lines and parse() calls processFile
\* for the next file.  (A file always has one line at least; reading nothing
\* stands for a file that holds one empty line, which changes nothing.)
NextFile ==
  /\ pc = "scan"
  /\ fileIdx < Len(files)
  /\ fileIdx' = fileIdx + 1
  /\ branch' = "eof"
  /\ currentChapterId' = Null
  /\ currentSectionTitle' = <<"Overview">>
  /\ isCapturingCode' = FALSE
  /\ activeSnippetId' = Null
  /\ codeBuffer' = <<>>
  /\ UNCHANGED <<pc, files, chapters, read, nLines, limit, result, run, earlier,
                 helperVars, renderVars>>

\* the last file runs out of lines and parse() returns
Return ==
  /\ pc = "scan"
  /\ fileIdx = Len(files)
  /\ pc' = "returned"
  /\ branch' = "eof"
  /\ result' = SortByPriority(chapters)
  /\ UNCHANGED <<files, fileIdx, chapters, currentChapterId, currentSectionTitle,
                 isCapturingCode, activeSnippetId, codeBuffer, read, nLines, limit, run, earlier,
                 helperVars, renderVars>>

ProcessLine(l) ==
  \/ ChapterLine(l) \/ SectionLine(l) \/ PriorityLine(l) \/ IncludeLine(l)
  \/ StartLine(l) \/ EndLine(l) \/ IgnoreLine(l) \/ NarrativeLine(l) \/ ContentLine(l)

Init == ScanInit(ScanFiles) /\ limit = MaxLines

Next == (\E l \in ScanLines : ProcessLine(l)) \/ NextFile \/ Return

Spec == Init /\ [][Next]_vars

\* the worked example: one file, read line by line
InitDemo == ScanInit(<<ScanFiles[1]>>) /\ limit = MaxDemoLines

NextDemo ==
  \/ \E l \in DemoLines :
       \/ ChapterLine(l) \/ SectionLine(l) \/ NarrativeLine(l)
       \/ StartLine(l) \/ ContentLine(l) \/ EndLine(l)
  \/ Return

SpecDemo == InitDemo /\ [][NextDemo]_vars

\* files of include directives
InitTabs == ScanInit(<<ScanFiles[1]>>) /\ limit = MaxTabLines

NextTabs ==
  \/ \E l \in TabLines : ChapterLine(l) \/ IncludeLine(l) \/ NarrativeLine(l)
  \/ Return

SpecTabs == InitTabs /\ [][NextTabs]_vars

\* captures with ignore markers
InitIgnore == ScanInit(<<ScanFiles[1]>>) /\ limit = MaxIgnoreLines

NextIgnore ==
  \/ \E l \in IgnoreLines :
       \/ ChapterLine(l) \/ StartLine(l) \/ IgnoreLine(l) \/ ContentLine(l) \/ EndLine(l)
  \/ Return

SpecIgnore == InitIgnore /\ [][NextIgnore]_vars

\* chapters declared again, in the same file or in the next one
InitRedeclare == ScanInit(ScanFiles) /\ limit = MaxRedeclareLines

NextRedeclare ==
  \/ \E l \in RedeclareLines : ChapterLine(l) \/ SectionLine(l) \/ NarrativeLine(l)
  \/ NextFile
  \/ Return

SpecRedeclare == InitRedeclare /\ [][NextRedeclare]_vars

\* captures with directives and narrative inside
InitCapture == ScanInit(<<ScanFiles[1]>>) /\ limit = MaxCaptureLines

NextCapture == (\E l \in CaptureLines : ProcessLine(l)) \/ Return

SpecCapture == InitCapture /\ [][NextCapture]_vars

\* files that include themselves and each other; every file has an end
InitSelf == ScanInit(ScanFiles) /\ limit = MaxSelfLines

NextSelf ==
  \/ \E l \in SelfLines : ChapterLine(l) \/ IncludeLine(l) \/ StartLine(l)
  \/ NextFile
  \/ Return

SpecSelf == InitSelf /\ [][NextSelf]_vars /\ WF_vars(NextSelf)

\* includes by bare file name
InitResolve == ScanInit(ScanFiles) /\ limit = MaxResolveLines

NextResolve ==
  \/ \E l \in ResolveLines : ChapterLine(l) \/ IncludeLine(l)
  \/ NextFile
  \/ Return

SpecResolve == InitResolve /\ [][NextResolve]_vars

\* sections named again
InitSections == ScanInit(ScanFiles) /\ limit = MaxSectionLines

NextSections ==
  \/ \E l \in SectionLines : ChapterLine(l) \/ SectionLine(l) \/ NarrativeLine(l)
  \/ NextFile
  \/ Return

SpecSections == InitSections /\ [][NextSections]_vars

\* Two instances, one after the other, over the same files: the second is
\* constructed when parse() of the first has returned, and reads what the
\* first read.
InitTwice == ScanInit(ScanFiles) /\ limit = MaxTwiceLines

\* a second instance whose chapters were the Map of the first
SecondInstanceSharesChapters ==
  /\ pc = "returned"
  /\ run = 1
  /\ run' = 2
  /\ earlier' = [read |-> read, result |-> result]
  /\ pc' = "scan"
  /\ fileIdx' = 1
  /\ currentChapterId' = Null
  /\ currentSectionTitle' = <<"Overview">>
  /\ isCapturingCode' = FALSE
  /\ activeSnippetId' = Null
  /\ codeBuffer' = <<>>
  /\ read' = [i \in 1..Len(files) |-> <<>>]
  /\ branch' = "none"
  /\ nLines' = 0
  /\ result' = <<>>
  /\ UNCHANGED <<chapters, files, limit, helperVars, renderVars>>

\* new DocParser(rootDir) and its parse(), after the first has returned
SecondInstance ==
  /\ pc = "returned"
  /\ run = 1
  /\ run' = 2
  /\ earlier' = [read |-> read, result |-> result]
  /\ pc' = "scan"
  /\ fileIdx' = 1
  /\ chapters' = <<>>
  /\ currentChapterId' = Null
  /\ currentSectionTitle' = <<"Overview">>
  /\ isCapturingCode' = FALSE
  /\ activeSnippetId' = Null
  /\ codeBuffer' = <<>>
  /\ read' = [i \in 1..Len(files) |-> <<>>]
  /\ branch' = "none"
  /\ nLines' = 0
  /\ result' = <<>>
  /\ UNCHANGED <<files, limit, helperVars, renderVars>>

\* the second instance finds in the file the line the first found there
SameLine(l) ==
  run = 2 =>
    /\ Len(read[fileIdx]) < Len(earlier.read[fileIdx])
    /\ l = earlier.read[fileIdx][Len(read[fileIdx]) + 1]

\* ... and the end of the file where the first found it
SameEnd == run = 2 => read[fileIdx] = earlier.read[fileIdx]

NextTwice ==
  \/ \E l \in TwiceLines :
       /\ SameLine(l)
       /\ \/ ChapterLine(l) \/ PriorityLine(l) \/ NarrativeLine(l) \/ StartLine(l)
          \/ ContentLine(l) \/ EndLine(l) \/ IncludeLine(l)
  \/ (SameEnd /\ NextFile)
  \/ (SameEnd /\ Return)
  \/ SecondInstance

SpecTwice == InitTwice /\ [][NextTwice]_vars

\* captures cut short by an include or by another start marker
InitFlush == ScanInit(<<ScanFiles[1]>>) /\ limit = MaxFlushLines

NextFlush ==
  \/ \E l \in FlushLines :
       \/ ChapterLine(l) \/ StartLine(l) \/ ContentLine(l) \/ IncludeLine(l) \/ EndLine(l)
  \/ Return

SpecFlush == InitFlush /\ [][NextFlush]_vars

\* dedent called on a buffer of its own
BufferLines ==
  { <<>>, <<" ">>, <<"a">>, <<" ", "a">>, <<" ", " ", "a", " ", "b">>, <<"\t", " ", "c">> }

Buffers == UNION {[1..n -> BufferLines] : n \in 0..MaxBuf}

InitDedent ==
  /\ pc = "idle"
  /\ files = ScanFiles
  /\ fileIdx = 1
  /\ chapters = <<>>
  /\ FreshLocals
  /\ read = [k \in 1..Len(ScanFiles) |-> <<>>]
  /\ branch = "none"
  /\ nLines = 0
  /\ limit = 0
  /\ result = <<>>
  /\ FirstRun
  /\ CreateIdle
  /\ helper = "none"
  /\ input \in Buffers
  /\ output = <<>>
  /\ RenderIdle

CallDedent ==
  /\ helper = "none"
  /\ helper' = "dedent"
  /\ output' = dedent(input)
  /\ UNCHANGED <<scanVars, input, renderVars, createVars>>

NextDedent == CallDedent

SpecDedent == InitDedent /\ [][NextDedent]_vars

\* ------------------------------------------------------------------ render
\* render(chapters) step by step, on chapters as DocChapter declares them
\* (relativeDir the folder of the source file, relative to the project root).

\* nothing scanned, no helper called
ScanIdle ==
  /\ pc = "idle"
  /\ files = ScanFiles
  /\ fileIdx = 1
  /\ chapters = <<>>
  /\ FreshLocals
  /\ read = [i \in 1..Len(ScanFiles) |-> <<>>]
  /\ branch = "none"
  /\ nLines = 0
  /\ limit = 0
  /\ result = <<>>
  /\ FirstRun
  /\ CreateIdle
  /\ helper = "none"
  /\ input = <<>>
  /\ output = <<>>

DocChapter(id, title, priority, relativeDir) ==
  [id |-> id, title |-> title, priority |-> priority, sections |-> <<>>,
   filePath |-> rootDir \o relativeDir \o <<id \o ".test.ts">>,
   relativeDir |-> Dir(relativeDir), writeDir |-> NoDir]

advanced == <<"test", "advanced">>

\* the chapters a project may hold: id, title and folder
Candidates ==
  << [id |-> "acl", title |-> <<"Access">>, dir |-> advanced],
     [id |-> "erc20", title |-> <<"ERC20">>, dir |-> advanced \o <<"tokens">>],
     [id |-> "nft", title |-> <<"NFT">>, dir |-> advanced \o <<"tokens">>],
     [id |-> "dao", title |-> <<"DAO">>, dir |-> advanced \o <<"voting">>],
     [id |-> "counter", title |-> <<"Counter">>, dir |-> <<"test", "beginner">>],
     [id |-> "basics", title |-> <<"Basics">>, dir |-> <<"test", "beginner">>] >>

Priorities == {1, DefaultPriority}

\* the chapters picked, in the order of Candidates
Picked(chosen, priority) ==
  LET at == SelectSeq([i \in 1..Len(Candidates) |-> i], LAMBDA i : i \in chosen)
  IN [j \in 1..Len(at) |->
        DocChapter(Candidates[at[j]].id, Candidates[at[j]].title, priority[at[j]],
                   Candidates[at[j]].dir)]

ConfidentialTokens == <<"Confidential", " ", "Tokens">>

\* contents of test/advanced/_meta.json: none, the two of the documentation
\* of hoisting, and one that is no JSON
HoistOnly ==
  [exists |-> TRUE, valid |-> TRUE,
   entries |-> << [key |-> <<"tokens", "erc20">>, config |-> ConfigTitle(ConfidentialTokens)] >>]

HoistAndGroup ==
  [exists |-> TRUE, valid |-> TRUE,
   entries |-> << [key |-> <<"tokens", "erc20">>, config |-> ConfigTitle(ConfidentialTokens)],
                  [key |-> <<"---">>, config |-> ConfigTitle(<<"Governance">>)],
                  [key |-> <<"voting">>, config |-> ConfigTitle(<<"DAO", " ", "Systems">>)] >>]

NoMeta == [exists |-> FALSE, valid |-> FALSE, entries |-> <<>>]

InvalidMeta == [exists |-> TRUE, valid |-> FALSE, entries |-> <<>>]

MetaChoices == {NoMeta, HoistOnly, HoistAndGroup, InvalidMeta}

\* JSON.parse returned null
ParsedNull(sourcePath) ==
  sourcePath \in DOMAIN metaFiles /\ "null" \in DOMAIN metaFiles[sourcePath]

\* 2. Read _meta.json: the entries of meta
ReadMeta(sourcePath) ==
  IF sourcePath \in DOMAIN metaFiles /\ metaFiles[sourcePath].exists
     /\ metaFiles[sourcePath].valid
  THEN metaFiles[sourcePath].entries
  ELSE <<>>

\* the objects the tree pass works on
T == [nodes |-> nodes, docs |-> docs, navFiles |-> navFiles]

InitRender ==
  /\ ScanIdle
  /\ rpc = "idle"
  /\ \E chosen \in SUBSET (1..Len(Candidates)) :
       /\ Cardinality(chosen) \in 1..MaxChapters
       /\ \E priority \in [chosen -> Priorities] :
            LET given == SortByPriority(Picked(chosen, priority))
            IN /\ toRender = [i \in 1..Len(given) |-> given[i].id]
               /\ docs = [id \in {given[i].id : i \in 1..Len(given)} |->
                            given[CHOOSE i \in 1..Len(given) : given[i].id = id]]
  /\ \E m \in MetaChoices : metaFiles = ((rootDir \o advanced) :> m)
  /\ commonPrefix = <<>>
  /\ nodes = Empty
  /\ navFiles = Empty
  /\ queue = <<>>
  /\ cursor = 0
  /\ outFiles = Empty
  /\ summary = <<>>

\* render() without "1. Clean Output"
RenderStartKeepsOutput ==
  /\ rpc = "idle"
  /\ Len(toRender) > 0
  /\ IF \E i \in 1..Len(toRender) : ~docs[toRender[i]].relativeDir.defined
     THEN /\ rpc' = "thrown"
          /\ UNCHANGED <<commonPrefix, nodes, cursor>>
     ELSE LET prefix == getCommonPrefix([i \in 1..Len(toRender) |->
                                           docs[toRender[i]].relativeDir.path])
          IN /\ commonPrefix' = prefix
             /\ nodes' = (<<>> :> createNode("root", <<>>, rootDir \o prefix))
             /\ cursor' = 1
             /\ rpc' = "add"
  /\ UNCHANGED <<toRender, docs, metaFiles, navFiles, queue, summary, scanVars, helperVars,
                 outFiles>>

\* 1. Clean Output, 2. Determine Source Root, new NavTree(sourceRoot)
RenderStart ==
  /\ rpc = "idle"
  /\ Len(toRender) > 0
  /\ outFiles' = Empty
  /\ IF \E i \in 1..Len(toRender) : ~docs[toRender[i]].relativeDir.defined
     THEN /\ rpc' = "thrown"
          /\ UNCHANGED <<commonPrefix, nodes, cursor>>
     ELSE LET prefix == getCommonPrefix([i \in 1..Len(toRender) |->
                                           docs[toRender[i]].relativeDir.path])
          IN /\ commonPrefix' = prefix
             /\ nodes' = (<<>> :> createNode("root", <<>>, rootDir \o prefix))
             /\ cursor' = 1
             /\ rpc' = "add"
  /\ UNCHANGED <<toRender, docs, metaFiles, navFiles, queue, summary, scanVars, helperVars>>

\* 3. Add Chapters to Tree; after the last one, 4. processMeta() is called
AddChapter ==
  /\ rpc = "add"
  /\ LET chapter == docs[toRender[cursor]]
         cleanDir == CleanDir(chapter.relativeDir.path, commonPrefix)
         added == addChapter(nodes, chapter, cleanDir)
     IN /\ nodes' = added
        /\ IF cursor < Len(toRender)
           THEN cursor' = cursor + 1 /\ UNCHANGED <<rpc, queue>>
           ELSE /\ cursor' = 0
                /\ rpc' = "meta"
                /\ queue' = PostOrder(added, <<>>)
  /\ UNCHANGED <<toRender, docs, metaFiles, commonPrefix, navFiles, outFiles, summary,
                 scanVars, helperVars>>

\* processNode, from "2. Read _meta.json" on, for the next node in turn
ProcessNode ==
  /\ rpc = "meta"
  /\ LET node == Head(queue)
         meta == ReadMeta(nodes[node].sourcePath)
         after == processNode(T, node, meta)
     IN IF ParsedNull(nodes[node].sourcePath)
        THEN \* Object.entries(null) throws in step 4, after step 3
             /\ rpc' = "thrown"
             /\ docs' = DefaultWriteDirs(T, node).docs
             /\ UNCHANGED <<nodes, navFiles, queue, cursor>>
        ELSE /\ nodes' = after.nodes
             /\ docs' = after.docs
             /\ navFiles' = after.navFiles
             /\ queue' = Tail(queue)
             /\ IF Len(queue) = 1 THEN rpc' = "write" /\ cursor' = 1
                                  ELSE UNCHANGED <<rpc, cursor>>
  /\ UNCHANGED <<toRender, metaFiles, commonPrefix, outFiles, summary, scanVars, helperVars>>

\* generateChapterContent: the front matter title, then the sections
generateChapterContent(chapter) == [title |-> chapter.title, sections |-> chapter.sections]

\* 5. Generate Files: the file of one chapter, by its path under outDir
WriteChapter ==
  /\ rpc = "write"
  /\ LET chapter == docs[toRender[cursor]]
         folderPath == IF chapter.writeDir.defined
                       THEN chapter.writeDir.path
                       ELSE CleanDir(chapter.relativeDir.path, commonPrefix)
         fullPath == folderPath \o <<chapter.id \o ".md">>
     IN outFiles' = [p \in DOMAIN outFiles \cup {fullPath} |->
                       IF p = fullPath THEN generateChapterContent(chapter) ELSE outFiles[p]]
  /\ IF cursor < Len(toRender)
     THEN cursor' = cursor + 1 /\ UNCHANGED rpc
     ELSE cursor' = 0 /\ rpc' = "summary"
  /\ UNCHANGED <<toRender, docs, metaFiles, commonPrefix, nodes, navFiles, queue, summary,
                 scanVars, helperVars>>

\* 6. Generate SUMMARY (the project has no docs/api folder)
WriteSummary ==
  /\ rpc = "summary"
  /\ summary' = renderTreeItems(T, nodes[<<>>].renderList, 0, <<"chapters">>)
  /\ rpc' = "done"
  /\ UNCHANGED <<toRender, docs, metaFiles, commonPrefix, nodes, navFiles, queue, cursor,
                 outFiles, scanVars, helperVars>>

NextRender == RenderStart \/ AddChapter \/ ProcessNode \/ WriteChapter \/ WriteSummary

SpecRender == InitRender /\ [][NextRender]_vars

\* ---- render() with more contents of test/advanced/_meta.json
\* the chapter hoisted out of tokens, and the folder tokens named as well
HoistAndName ==
  [exists |-> TRUE, valid |-> TRUE,
   entries |-> << [key |-> <<"tokens", "erc20">>, config |-> ConfigTitle(ConfidentialTokens)],
                  [key |-> <<"tokens">>, config |-> ConfigTitle(<<"Tokens">>)] >>]

\* {"acl": {"hidden": true}, "voting": "DAO Systems"}
HideAcl ==
  [exists |-> TRUE, valid |-> TRUE,
   entries |-> << [key |-> <<"acl">>, config |-> ConfigObject(<<>>, TRUE, "")],
                  [key |-> <<"voting">>, config |-> ConfigTitle(<<"DAO", " ", "Systems">>)] >>]

\* separators by key and by type, one of them under the name of a folder
Separators ==
  [exists |-> TRUE, valid |-> TRUE,
   entries |-> << [key |-> <<"---">>, config |-> ConfigTitle(<<"Governance">>)],
                  [key |-> <<"acl">>, config |-> ConfigTitle(<<"Access">>)],
                  [key |-> <<"voting">>, config |-> ConfigObject(<<"Systems">>, FALSE, "separator")],
                  [key |-> <<"---2">>, config |-> ConfigObject(<<>>, FALSE, "")] >>]

\* hoist keys with no folder gone, with no chapter ghost, then a key that matches
BadHoists ==
  [exists |-> TRUE, valid |-> TRUE,
   entries |-> << [key |-> <<"gone", "acl">>, config |-> ConfigTitle(ConfidentialTokens)],
                  [key |-> <<"tokens", "ghost">>, config |-> ConfigTitle(<<"Token">>)],
                  [key |-> <<"voting">>, config |-> ConfigTitle(<<"DAO", " ", "Systems">>)] >>]

\* the document `null`
NullMeta == [exists |-> TRUE, valid |-> TRUE, entries |-> <<>>, null |-> TRUE]

ConfigChoices ==
  {NoMeta, InvalidMeta, NullMeta, HoistAndName, HideAcl, Separators, BadHoists, HoistAndGroup}

InitConfig ==
  /\ ScanIdle
  /\ rpc = "idle"
  /\ \E chosen \in SUBSET (1..Len(Candidates)) :
       /\ Cardinality(chosen) \in 1..MaxChapters
       /\ LET given == SortByPriority(Picked(chosen, [i \in chosen |-> DefaultPriority]))
          IN /\ toRender = [i \in 1..Len(given) |-> given[i].id]
             /\ docs = [id \in {given[i].id : i \in 1..Len(given)} |->
                          given[CHOOSE i \in 1..Len(given) : given[i].id = id]]
  /\ \E m \in ConfigChoices : metaFiles = ((rootDir \o advanced) :> m)
  /\ commonPrefix = <<>>
  /\ nodes = Empty
  /\ navFiles = Empty
  /\ queue = <<>>
  /\ cursor = 0
  /\ outFiles = Empty
  /\ summary = <<>>

SpecConfig == InitConfig /\ [][NextRender]_vars

\* ---- render() over the output of an earlier run
\* a chapter file an earlier run left under outDir
StaleFile == <<"advanced", "tokens", "old.md">>

InitRerun ==
  /\ ScanIdle
  /\ rpc = "idle"
  /\ \E chosen \in SUBSET (1..Len(Candidates)) :
       /\ Cardinality(chosen) \in 1..MaxChapters
       /\ LET given == SortByPriority(Picked(chosen, [i \in chosen |-> DefaultPriority]))
          IN /\ toRender = [i \in 1..Len(given) |-> given[i].id]
             /\ docs = [id \in {given[i].id : i \in 1..Len(given)} |->
                          given[CHOOSE i \in 1..Len(given) : given[i].id = id]]
  /\ \E m \in MetaChoices : metaFiles = ((rootDir \o advanced) :> m)
  /\ commonPrefix = <<>>
  /\ nodes = Empty
  /\ navFiles = Empty
  /\ queue = <<>>
  /\ cursor = 0
  /\ outFiles = (StaleFile :> [title |-> <<"Token">>, sections |-> <<>>])
  /\ summary = <<>>

SpecRerun == InitRerun /\ [][NextRender]_vars

\* ---- render() of a project where a test file bears the name of the folder
\* beside it: test/advanced/tokens.test.ts and test/advanced/tokens/
Namesake == DocChapter("tokens", <<"Tokens">>, DefaultPriority, advanced)

InitNamesake ==
  /\ ScanIdle
  /\ rpc = "idle"
  /\ \E chosen \in SUBSET (1..Len(Candidates)) :
       /\ Cardinality(chosen) \in 1..MaxChapters
       /\ \E others \in {<<>>, <<Namesake>>} :
            LET given == SortByPriority(Picked(chosen, [i \in chosen |-> DefaultPriority])
                                        \o others)
            IN /\ toRender = [i \in 1..Len(given) |-> given[i].id]
               /\ docs = [id \in {given[i].id : i \in 1..Len(given)} |->
                            given[CHOOSE i \in 1..Len(given) : given[i].id = id]]
  /\ \E m \in MetaChoices : metaFiles = ((rootDir \o advanced) :> m)
  /\ commonPrefix = <<>>
  /\ nodes = Empty
  /\ navFiles = Empty
  /\ queue = <<>>
  /\ cursor = 0
  /\ outFiles = Empty
  /\ summary = <<>>

SpecNamesake == InitNamesake /\ [][NextRender]_vars

\* ---- the tree with files: NavTree.addFile called while the tree is filled
\* the files a caller may register, by path from the root of the tree
NavFileChoices == { <<"Token.md">>, <<"advanced", "Token.md">> }

AddFile ==
  /\ rpc = "add"
  /\ \E f \in NavFileChoices \ DOMAIN navFiles :
       /\ nodes' = addFile(nodes, f)
       /\ navFiles' = (f :> [id |-> FileId(f), path |-> f, title |-> <<FileId(f)>>]) @@ navFiles
  /\ UNCHANGED <<rpc, toRender, docs, metaFiles, commonPrefix, queue, cursor, outFiles,
                 summary, scanVars, helperVars>>

NextFiles == NextRender \/ AddFile

SpecFiles == InitRender /\ [][NextFiles]_vars

\* ---- generateTestDocs: parse(), then render() on what it returned
\* a chapter object as render() reads it: a property never set reads undefined
AsDocChapter(ch) ==
  [id |-> ch.id, title |-> ch.title, priority |-> ch.priority, sections |-> ch.sections,
   filePath |-> ch.filePath,
   relativeDir |-> IF "relativeDir" \in DOMAIN ch THEN Dir(ch.relativeDir) ELSE NoDir,
   writeDir |-> IF "writeDir" \in DOMAIN ch THEN Dir(ch.writeDir) ELSE NoDir]

GenerateLines == {Chapter("demo", "Demo"), Chapter("other", "Other"), Section("Intro"), Hello}

InitGenerate == ScanInit(ScanFiles) /\ limit = MaxGenerateLines

\* renderer.render(chapters), unless no chapter was found
CallRender ==
  /\ pc = "returned"
  /\ Len(result) > 0
  /\ pc' = "render"
  /\ toRender' = [i \in 1..Len(result) |-> result[i].id]
  /\ docs' = [id \in {result[i].id : i \in 1..Len(result)} |->
                AsDocChapter(result[CHOOSE i \in 1..Len(result) : result[i].id = id])]
  /\ UNCHANGED <<files, fileIdx, chapters, currentChapterId, currentSectionTitle,
                 isCapturingCode, activeSnippetId, codeBuffer, read, branch, nLines, limit,
                 result, run, earlier, helperVars, rpc, metaFiles, commonPrefix, nodes,
                 navFiles, queue, cursor, outFiles, summary>>

NextGenerate ==
  \/ \E l \in GenerateLines : ChapterLine(l) \/ SectionLine(l) \/ NarrativeLine(l)
  \/ NextFile
  \/ Return
  \/ CallRender
  \/ (pc = "render" /\ RenderStart)

SpecGenerate == InitGenerate /\ [][NextGenerate]_vars

\* ---- createProject: the steps around the documentation
\* the calls before the installation, in order
Preparation ==
  << "validatePmExists", "validateOutputDir", "copyTemplate", "copyExampleFiles",
     "updatePackageJson" >>

InitCreate ==
  /\ pc = "idle"
  /\ files = ScanFiles
  /\ fileIdx = 1
  /\ chapters = <<>>
  /\ FreshLocals
  /\ read = [i \in 1..Len(ScanFiles) |-> <<>>]
  /\ branch = "none"
  /\ nLines = 0
  /\ limit = MaxGenerateLines
  /\ result = <<>>
  /\ FirstRun
  /\ helper = "none"
  /\ input = <<>>
  /\ output = <<>>
  /\ RenderIdle
  /\ step = "prepare"
  /\ args \in [install : BOOLEAN, git : BOOLEAN]
  /\ called = <<>>

\* the calls of lines 21 to 33, one after the other
Prepare ==
  /\ step = "prepare"
  /\ called' = Append(called, Preparation[Len(called) + 1])
  /\ step' = IF Len(called') = Len(Preparation) THEN "install" ELSE "prepare"
  /\ UNCHANGED <<args, helper, input, output, scanVars, renderVars>>

\* if (args.install): installDependencies
Install ==
  /\ step = "install"
  /\ IF args.install
     THEN called' = Append(called, "installDependencies") /\ step' = "docs"
     ELSE called' = called /\ step' = "git"
  /\ UNCHANGED <<args, helper, input, output, scanVars, renderVars>>

\* generateDocs: generateSolidityDocs, then generateTestDocs, which
\* constructs the parser and calls parse()
GenerateDocs ==
  /\ step = "docs"
  /\ called' = called \o <<"generateDocs", "generateSolidityDocs", "generateTestDocs">>
  /\ step' = "testdocs"
  /\ pc' = "scan"
  /\ UNCHANGED <<args, helper, input, output, files, fileIdx, chapters, currentChapterId,
                 currentSectionTitle, isCapturingCode, activeSnippetId, codeBuffer, read,
                 branch, nLines, limit, result, run, earlier, renderVars>>

\* generateTestDocs: no chapter found, process.exit(0)
Exit ==
  /\ step = "testdocs"
  /\ pc = "returned"
  /\ Len(result) = 0
  /\ step' = "exited"
  /\ UNCHANGED <<args, called, helper, input, output, scanVars, renderVars>>

\* render() threw: generateTestDocs, generateDocs and createProject reject
Reject ==
  /\ step = "testdocs"
  /\ rpc = "thrown"
  /\ step' = "rejected"
  /\ UNCHANGED <<args, called, helper, input, output, scanVars, renderVars>>

\* if (args.git): initializeGit
InitializeGit ==
  /\ step = "git"
  /\ called' = IF args.git THEN Append(called, "initializeGit") ELSE called
  /\ step' = "outro"
  /\ UNCHANGED <<args, helper, input, output, scanVars, renderVars>>

\* prompt.outro: createProject is over
Outro ==
  /\ step = "outro"
  /\ step' = "done"
  /\ UNCHANGED <<args, called, helper, input, output, scanVars, renderVars>>

NextCreate ==
  \/ Prepare
  \/ Install
  \/ GenerateDocs
  \/ \E l \in GenerateLines : ChapterLine(l) \/ SectionLine(l) \/ NarrativeLine(l)
  \/ NextFile
  \/ Return
  \/ Exit
  \/ CallRender
  \/ (pc = "render" /\ RenderStart)
  \/ Reject
  \/ InitializeGit
  \/ Outro

\* createProject awaits each call in turn: what can run, runs
SpecCreate == InitCreate /\ [][NextCreate]_vars /\ WF_vars(NextCreate)

\* ================================================================= claims
\* the blocks of a section of a chapter, <<>> when there is none
BlocksOf(chs, cid, title) ==
  IF HasChapter(chs, cid) /\ HasSection(chs[ChapterIndex(chs, cid)], title)
  THEN LET ch == chs[ChapterIndex(chs, cid)]
       IN ch.sections[SectionIndex(ch, title)].blocks
  ELSE <<>>

CurrentBlocks == BlocksOf(chapters, currentChapterId, currentSectionTitle)

EndsWith(s, suffix) ==
  Len(suffix) <= Len(s) /\ SubSeq(s, Len(s) - Len(suffix) + 1, Len(s)) = suffix

\* the lines of the current file handled so far
Seen == read[fileIdx]

\* C1: scanning the worked example (chapter demo "Demo", section "Intro", the
\* narrative line "Hello world", start snip1, `const x = 1;`, end snip1) yields
\* exactly one chapter (demo, Demo) with exactly one section (Intro) holding
\* Markdown("Hello world") then Code(snip1, "const x = 1;"), and no "Overview"
\* section.
C1_DemoScenario ==
  (pc = "returned" /\ read[1] = DemoFile) =>
    result =
      << [filePath |-> ScanFiles[1], id |-> "demo", priority |-> 100,
          title |-> <<"Demo">>,
          sections |->
            << [title |-> <<"Intro">>,
                blocks |->
                  << [type |-> "markdown", content |-> <<"Hello", " ", "world">>],
                     [type |-> "code", id |-> "snip1",
                      content |-> <<"const", " ", "x", " ", "=", " ", "1;">>,
                      language |-> "typescript", sourceFile |-> ScanFiles[1],
                      title |-> Undefined] >>] >>] >>

C1_Witness == pc = "returned" /\ read[1] = DemoFile

\* C2: no section ever holds two adjacent Markdown blocks, and after two
\* consecutive narrative lines the last block of the current section is one
\* Markdown block whose content ends with line1, a newline, line2.
NoAdjacentMarkdown ==
  \A k \in 1..Len(chapters) : \A j \in 1..Len(chapters[k].sections) :
    LET blocks == chapters[k].sections[j].blocks
    IN \A i \in 1..(Len(blocks) - 1) :
         ~(blocks[i].type = "markdown" /\ blocks[i + 1].type = "markdown")

TwoNarrativeLines ==
  /\ pc = "scan"
  /\ branch = "narrative"
  /\ currentChapterId # Null
  /\ Len(Seen) >= 2
  /\ LineKind(Seen[Len(Seen) - 1], currentChapterId) = "narrative"

C2_MarkdownCoalescing ==
  /\ NoAdjacentMarkdown
  /\ TwoNarrativeLines =>
       LET n == Len(Seen)
           blocks == CurrentBlocks
       IN /\ Len(blocks) > 0
          /\ blocks[Len(blocks)].type = "markdown"
          /\ EndsWith(blocks[Len(blocks)].content,
                      narrativeText(Seen[n - 1]) \o <<NL>> \o narrativeText(Seen[n]))

C2_Witness ==
  /\ TwoNarrativeLines
  /\ Len(CurrentBlocks) = 1
  /\ CurrentBlocks[1].content = <<"Hello", " ", "world", NL, " ", "More">>

\* C3: three consecutive include directives of group "g" in the same section
\* that all resolve produce one TabGroup "g" whose last three tabs are the
\* three includes in the order met (exactly three tabs when the section was
\* empty before them); the third include opens no new group.
ThreeGroupIncludes ==
  /\ pc = "scan"
  /\ currentChapterId # Null
  /\ Len(Seen) >= 4
  /\ \A i \in (Len(Seen) - 2)..Len(Seen) : Seen[i] \in GroupIncludes

\* path.basename of the file an include directive of GroupIncludes names
IncludedName(l) == LET t == Matched[l].includeMatch.targetPath IN t[Len(t)]

C3_TabGrouping ==
  ThreeGroupIncludes =>
    LET n == Len(Seen)
        blocks == CurrentBlocks
        m == Len(blocks)
    IN /\ m > 0
       /\ blocks[m].type = "tabs"
       /\ blocks[m].groupId = "g"
       /\ LET tabs == blocks[m].tabs
              c == Len(tabs)
          IN /\ c >= 3
             /\ \A i \in 0..2 : tabs[c - i].id = "include-" \o IncludedName(Seen[n - i])
             /\ (n = 4 /\ Seen[1] = Chapter("demo", "Demo")) => (c = 3 /\ m = 1)
       /\ m > 1 => ~(blocks[m - 1].type = "tabs" /\ blocks[m - 1].groupId = "g")

C3_Witness ==
  /\ ThreeGroupIncludes
  /\ Seen[2] # Seen[3]
  /\ Len(CurrentBlocks) = 1
  /\ Len(CurrentBlocks[1].tabs) = 3

\* C5: at end of file a capture that is still open is flushed: its buffer is
\* emitted, dedented, as a Code block with the open snippet id in the current
\* chapter and section, as the matching end marker would have done.
C5_EofFlush ==
  [][ ( /\ pc = "scan"
        /\ branch' = "eof"
        /\ isCapturingCode
        /\ activeSnippetId # Null
        /\ currentChapterId # Null )
      => chapters' = addCodeBlock(chapters, currentChapterId, currentSectionTitle,
                                  SnippetBlock(codeBuffer, activeSnippetId, filePath), Null)
    ]_vars

\* every Code block of the chapters, tabs included
CodeBlocks(chs) ==
  UNION { UNION { LET blocks == chs[k].sections[j].blocks
                  IN UNION { IF blocks[i].type = "code" THEN {blocks[i]}
                             ELSE IF blocks[i].type = "tabs"
                             THEN {blocks[i].tabs[x] : x \in 1..Len(blocks[i].tabs)}
                             ELSE {} : i \in 1..Len(blocks) }
                  : j \in 1..Len(chs[k].sections) }
          : k \in 1..Len(chs) }

Contains(s, x) == \E i \in 1..Len(s) : s[i] = x

\* C6: inside an open capture the line that follows a `// @ignore` marker is
\* hidden: when `this.skip();` only ever follows an ignore marker, no Code block
\* contains it.
SkipOnlyAfterIgnore ==
  \A f \in 1..Len(read) : \A i \in 1..Len(read[f]) :
    read[f][i] = Skip => (i > 1 /\ read[f][i - 1] = Ignore)

C6_IgnoreHidesNextLine ==
  SkipOnlyAfterIgnore =>
    \A b \in CodeBlocks(chapters) : ~Contains(b.content, "this.skip();")

\* blocks held by the chapters, each tab counted
RECURSIVE SumOver(_, _)
SumOver(f, n) == IF n = 0 THEN 0 ELSE f[n] + SumOver(f, n - 1)

CountBlocks(chs) ==
  SumOver([k \in 1..Len(chs) |->
            SumOver([j \in 1..Len(chs[k].sections) |->
                      LET blocks == chs[k].sections[j].blocks
                      IN SumOver([i \in 1..Len(blocks) |->
                                   IF blocks[i].type = "tabs" THEN Len(blocks[i].tabs) ELSE 1],
                                 Len(blocks))],
                    Len(chs[k].sections))],
          Len(chs))

\* the step handles an include directive with well-formed options whose target
\* resolveIncludePath cannot resolve
MissingIncludeStep ==
  /\ pc = "scan"
  /\ branch' = "include"
  /\ nLines' = nLines + 1
  /\ LET l == read'[fileIdx][Len(read'[fileIdx])]
         m == Matched[l].includeMatch
     IN /\ resolveIncludePath(m.targetPath, filePath) = {NoPath}
        /\ m.rawOptions # <<>> => JSONparse(m.rawOptions).ok

\* C8: an include directive whose target cannot be resolved adds no block: the
\* step does what the capture flush of a successful include does and nothing
\* more, so the lines after it are handled as if it had been absent.
C8_MissingInclude ==
  [][ MissingIncludeStep =>
        LET flushing == isCapturingCode /\ activeSnippetId # Null
        IN /\ chapters' = FlushedForInclude
           /\ CountBlocks(chapters') = CountBlocks(chapters) + (IF flushing THEN 1 ELSE 0)
           /\ pc' = "scan"
           /\ currentChapterId' = currentChapterId
           /\ currentSectionTitle' = currentSectionTitle
           /\ isCapturingCode' = (isCapturingCode /\ ~flushing)
           /\ activeSnippetId' = (IF flushing THEN Null ELSE activeSnippetId)
           /\ codeBuffer' = (IF flushing THEN <<>> ELSE codeBuffer)
    ]_vars

C8_Witness ==
  /\ pc = "scan"
  /\ branch = "include"
  /\ line = Include(<<"Missing.sol">>)
  /\ Len(CurrentBlocks) = 1
  /\ CurrentBlocks[1].type = "code"
  /\ CurrentBlocks[1].id = "snip1"
  /\ ~isCapturingCode

\* C9: no failure while handling an include directive aborts the scan: after
\* an include line, whatever its target and options, the scan goes on and
\* parse() returns.
C9_IncludeNeverAborts == branch = "include" => pc = "scan"

\* C10: dedent removes leading and trailing blank lines; with W the least
\* leading-whitespace width of the remaining non-blank lines, every non-blank
\* line loses exactly its first W characters, all whitespace, so that one line
\* at least starts at column 0; every interior blank line becomes the empty
\* string; a buffer of blank lines only yields the empty string.
NonBlank(ls) == {k \in 1..Len(ls) : \E i \in 1..Len(ls[k]) : ~IsWs(ls[k][i])}

Indent(l) == Min({i \in 1..Len(l) : ~IsWs(l[i])}) - 1

C10_Dedent ==
  helper = "dedent" =>
    IF NonBlank(input) = {} THEN output = <<>>
    ELSE LET f == Min(NonBlank(input))
             g == Max(NonBlank(input))
             W == Min({Indent(input[k]) : k \in NonBlank(input)})
             out == SplitLines(output)
         IN /\ Len(out) = g - f + 1
            /\ \A k \in f..g :
                 LET o == out[k - f + 1]
                 IN IF k \in NonBlank(input)
                    THEN /\ Len(input[k]) = W + Len(o)
                         /\ \A i \in 1..W : IsWs(input[k][i])
                         /\ \A i \in 1..Len(o) : o[i] = input[k][i + W]
                    ELSE o = <<>>
            /\ \E k \in 1..Len(out) : Len(out[k]) > 0 /\ ~IsWs(out[k][1])

C10_Witness ==
  /\ helper = "dedent"
  /\ input = << <<" ", " ", "a", " ", "b">>, <<" ">>, <<" ", "a">> >>
  /\ output = <<" ", "a", " ", "b", NL, NL, "a">>

\* ---------------------------------------------------------------- the tree
\* processNode has finished the node
Processed(n) ==
  /\ n \in DOMAIN nodes
  /\ rpc \in {"meta", "write", "summary", "done"}
  /\ \A i \in 1..Len(queue) : queue[i] # n

HasItem(n, type, data) ==
  \E i \in 1..Len(nodes[n].renderList) :
    nodes[n].renderList[i].type = type /\ nodes[n].renderList[i].data = data

\* the entries of the configuration the node reads
MetaOf(n) == ReadMeta(nodes[n].sourcePath)

HasEntry(n, key) == \E i \in 1..Len(MetaOf(n)) : MetaOf(n)[i].key = key

InAdvanced == <<"advanced">>

InTokens == <<"advanced", "tokens">>

\* erc20 was placed under advanced/tokens, the configuration of advanced has
\* the key tokens/erc20 with the value "Confidential Tokens" (and does not
\* also name the folder tokens), and the pass has finished advanced
HoistCase ==
  /\ InTokens \in DOMAIN nodes
  /\ "erc20" \in DOMAIN docs
  /\ \E i \in 1..Len(MetaOf(InAdvanced)) :
       /\ MetaOf(InAdvanced)[i].key = <<"tokens", "erc20">>
       /\ MetaOf(InAdvanced)[i].config = ConfigTitle(ConfidentialTokens)
  /\ ~HasEntry(InAdvanced, <<"tokens">>)
  /\ Processed(InAdvanced)

Drained(n) ==
  nodes[n].chapters = <<>> /\ nodes[n].children = <<>> /\ nodes[n].files = <<>>

UrlHas(url, segment) == \E i \in 1..Len(url) : url[i] = segment

Unordered(n, id) ==
  \A i \in 1..Len(MetaOf(n)) : MetaOf(n)[i].key[Len(MetaOf(n)[i].key)] # id

\* C7: among the chapters of a folder that its configuration does not order,
\* a chapter with a lower priority number comes before one with a higher
\* priority number in the renderList of the folder, whatever their titles.
C7_PriorityOrder ==
  \A n \in DOMAIN nodes :
    Processed(n) =>
      \A i, j \in 1..Len(nodes[n].renderList) :
        LET a == nodes[n].renderList[i]
            b == nodes[n].renderList[j]
        IN (/\ a.type = "chapter" /\ b.type = "chapter"
            /\ Unordered(n, a.data) /\ Unordered(n, b.data)
            /\ docs[a.data].priority < docs[b.data].priority)
           => i < j

\* ======================================================= helpers on their own
\* stripComments called on a content of its own
ConstA == <<"const", " ", "a", " ", "=", " ", "1;">>

ConstB == <<"const", " ", "b", " ", "=", " ", "2;">>

StripAlphabet ==
  { ConstA \o <<" ", "//", " ", "init">>, <<>>, <<"//", " ", "full", " ", "comment">>, ConstB,
    <<" ", " ">>, <<"url", " ", "http:", "//", "host">>, <<"/*", " ", "block", " ", "*/">> }

StripContents == {JoinLines(ls) : ls \in UNION {[1..n -> StripAlphabet] : n \in 1..MaxStripLines}}

InitStrip ==
  /\ pc = "idle"
  /\ files = ScanFiles
  /\ fileIdx = 1
  /\ chapters = <<>>
  /\ FreshLocals
  /\ read = [i \in 1..Len(ScanFiles) |-> <<>>]
  /\ branch = "none"
  /\ nLines = 0
  /\ limit = 0
  /\ result = <<>>
  /\ FirstRun
  /\ CreateIdle
  /\ helper = "none"
  /\ input \in StripContents
  /\ output = <<>>
  /\ RenderIdle

CallStripComments ==
  /\ helper = "none"
  /\ helper' = "stripComments"
  /\ output' = stripComments(input)
  /\ UNCHANGED <<scanVars, input, renderVars, createVars>>

NextStrip == CallStripComments

SpecStrip == InitStrip /\ [][NextStrip]_vars

StripExample ==
  JoinLines(<< ConstA \o <<" ", "//", " ", "init">>, <<>>,
               <<"//", " ", "full", " ", "comment">>, ConstB >>)

\* C11: stripping the comments of the four lines `const a = 1; // init`, an
\* empty line, `// full comment`, `const b = 2;` yields the three lines
\* `const a = 1;`, an empty line, `const b = 2;`.
C11_StripExample ==
  (helper = "stripComments" /\ input = StripExample) =>
    output = JoinLines(<<ConstA, <<>>, ConstB>>)

C11_Witness == helper = "stripComments" /\ input = StripExample

\* ============================================================ the scan, cont.
\* the step reads a line and takes branch b
Took(b) == nLines' = nLines + 1 /\ branch' = b

LastOf(s) == s[Len(s)]

\* C12: a chapter line whose id is already declared (in this file or an
\* earlier one) changes no chapter (title, source file, sections and blocks
\* stay, no second chapter is made) and makes the id current; content lines
\* that follow are appended to that existing chapter.
RedeclareStep ==
  (Took("chapter") /\ HasChapter(chapters, Matched[line'].chapterMatch.id)) =>
     /\ chapters' = chapters
     /\ currentChapterId' = Matched[line'].chapterMatch.id

AppendStep ==
  (Took("narrative") /\ currentChapterId # Null) =>
     /\ Len(chapters') = Len(chapters)
     /\ \A i \in 1..Len(chapters) :
          IF chapters[i].id # currentChapterId THEN chapters'[i] = chapters[i]
          ELSE /\ chapters'[i].title = chapters[i].title
               /\ chapters'[i].filePath = chapters[i].filePath
               /\ LET blocks == BlocksOf(chapters', currentChapterId, currentSectionTitle)
                  IN /\ Len(blocks) > 0
                     /\ LastOf(blocks).type = "markdown"
                     /\ EndsWith(LastOf(blocks).content, narrativeText(line'))

C12_FirstDeclarationWins == [][RedeclareStep /\ AppendStep]_vars

C12_Witness ==
  /\ fileIdx = 2
  /\ read[1] = <<Chapter("demo", "Demo"), Hello>>
  /\ read[2] = <<Chapter("demo", "Again"), Hello>>
  /\ Len(chapters) = 1
  /\ chapters[1].title = <<"Demo">>
  /\ chapters[1].filePath = ScanFiles[1]

\* ------------------------------------------------------ the tree, cont.
\* the id of the chapter a link of the table of contents leads to
LinkedId(entry) ==
  CHOOSE id \in DOMAIN docs : LastOf(entry.url) = id \o ".md"

IsChapterLink(entry) ==
  entry.kind = "link" /\ \E id \in DOMAIN docs : LastOf(entry.url) = id \o ".md"

\* C13: every chapter link of the table of contents (the prefix "chapters",
\* the segments of the enclosing nodes, then <id>.md) is the path of the file
\* written for that chapter, <writeDir>/<id>.md under the output directory
\* docs/chapters, for hoisted chapters and for the others.
C13_LinksMatchFiles ==
  rpc = "done" =>
    \A i \in 1..Len(summary) :
      summary[i].kind = "link" =>
        /\ IsChapterLink(summary[i])
        /\ LET id == LinkedId(summary[i])
               file == docs[id].writeDir.path \o <<id \o ".md">>
           IN /\ docs[id].writeDir.defined
              /\ summary[i].url = <<"chapters">> \o file
              /\ file \in DOMAIN outFiles

\* a hoisted chapter and one that stayed in its folder are both linked
C13_Witness ==
  /\ rpc = "done"
  /\ HoistCase
  /\ \E i, j \in 1..Len(summary) :
       /\ summary[i].url = <<"chapters", "advanced", "erc20.md">>
       /\ summary[j].url = <<"chapters", "advanced", "voting", "dao.md">>

\* the configuration entries with the titles given to child folders taken out
Unrenamed(t, n, entries) ==
  LET folders == {t.nodes[n].children[i] : i \in 1..Len(t.nodes[n].children)}
      others == {t.nodes[n].chapters[i] : i \in 1..Len(t.nodes[n].chapters)}
                \cup {FileId(t.nodes[n].files[i]) : i \in 1..Len(t.nodes[n].files)}
  IN [i \in 1..Len(entries) |->
        IF Len(entries[i].key) = 1 /\ entries[i].key[1] \in folders \ others
        THEN [entries[i] EXCEPT !.config.title = <<>>]
        ELSE entries[i]]

\* the objects after processNode has run for the nodes of q in turn, with the
\* configurations as they are or with the folder titles taken out
RECURSIVE PassAll(_, _, _)
PassAll(t, q, strip) ==
  IF Len(q) = 0 THEN t
  ELSE LET meta == ReadMeta(t.nodes[Head(q)].sourcePath)
       IN PassAll(processNode(t, Head(q), IF strip THEN Unrenamed(t, Head(q), meta) ELSE meta),
                  Tail(q), strip)

\* what the table of contents links to, line by line
Links(t) ==
  LET toc == renderTreeItems(t, t.nodes[<<>>].renderList, 0, <<"chapters">>)
  IN [i \in 1..Len(toc) |-> [depth |-> toc[i].depth, kind |-> toc[i].kind, url |-> toc[i].url]]

\* no step changes the segment or the fullPath of a node
SegmentsKept ==
  \A n \in DOMAIN nodes :
    n \in DOMAIN nodes' /\ nodes'[n].segment = nodes[n].segment
                        /\ nodes'[n].fullPath = nodes[n].fullPath

\* a tree pass is about to start
PassStarts == rpc = "meta" /\ Len(queue) = Cardinality(DOMAIN nodes)

RenameChangesLabelsOnly ==
  PassStarts =>
    LET renamed == PassAll(T, queue, FALSE)
        plain == PassAll(T, queue, TRUE)
    IN /\ Links(renamed) = Links(plain)
       /\ \A id \in DOMAIN docs : renamed.docs[id].writeDir = plain.docs[id].writeDir
       /\ \A n \in DOMAIN nodes :
            /\ renamed.nodes[n].segment = nodes[n].segment
            /\ renamed.nodes[n].fullPath = nodes[n].fullPath

\* C14: renaming a folder through the configuration changes the label of the
\* node only: segment and fullPath stay through the tree pass, and the links
\* of the table of contents and the output directories of the chapters are
\* the same with the rename and without it.
C14_RenameKeepsLinks == [][SegmentsKept]_vars /\ []RenameChangesLabelsOnly

C14_Witness ==
  /\ rpc = "done"
  /\ <<"advanced", "voting">> \in DOMAIN nodes
  /\ nodes[<<"advanced", "voting">>].label = <<"DAO", " ", "Systems">>
  /\ nodes[<<"advanced", "voting">>].segment = "voting"
  /\ \E i \in 1..Len(summary) : summary[i].url = <<"chapters", "advanced", "voting", "dao.md">>

\* C15: two DocParser instances that scan the same files in the same order
\* return the same chapter list (ids, order, sections, blocks), and the work
\* of the second leaves what the first returned as it was.
FirstResultKept == run = 2 => earlier' = earlier

SameResult == (run = 2 /\ pc = "returned") => (read = earlier.read /\ result = earlier.result)

InvalidPriorityStep ==
  /\ pc = "scan"
  /\ nLines' = nLines + 1
  /\ line' = Priority("abc")
  /\ currentChapterId # Null

\* C16: a priority directive with a value that does not parse sets the
\* priority of the current chapter to 100, adds no block to any section and
\* does not fail the scan.
C16_InvalidPriority ==
  [][ InvalidPriorityStep =>
        /\ pc' = "scan"
        /\ chapters' = [chapters EXCEPT
                          ![ChapterIndex(chapters, currentChapterId)].priority = DefaultPriority] ]_vars

\* the step reads an end-capture line
EndStep == pc = "scan" /\ nLines' = nLines + 1 /\ Matched[line'].endMatch.ok

\* C17: an end-capture line closes the open capture exactly when its id is
\* the id of the open capture: then the buffer is emitted as a Code block and
\* no capture is open afterwards; otherwise (another id, or no capture open)
\* the capture flag, the open id, the buffer and the blocks are unchanged.
C17_EndClosesOnMatch ==
  [][ EndStep =>
        IF isCapturingCode /\ activeSnippetId = Matched[line'].endMatch.id
        THEN /\ ~isCapturingCode'
             /\ activeSnippetId' = Null
             /\ codeBuffer' = <<>>
             /\ LET blocks == BlocksOf(chapters', currentChapterId, currentSectionTitle)
                IN /\ Len(blocks) > 0
                   /\ LastOf(blocks).type = "code"
                   /\ LastOf(blocks).id = activeSnippetId
                   /\ LastOf(blocks).content = dedent(codeBuffer)
        ELSE UNCHANGED <<isCapturingCode, activeSnippetId, codeBuffer, chapters>> ]_vars

\* the step handles an include directive (its options parse) with a capture open
IncludeInCapture ==
  /\ pc = "scan"
  /\ Took("include")
  /\ pc' = "scan"
  /\ isCapturingCode

\* C18: an include directive met while a capture is open flushes it first: a
\* Code block with the open snippet id and the dedented buffer is appended
\* to the current section before any block of the include, and after the
\* line no capture is open and the buffer is empty.
C18_IncludeFlushesCapture ==
  [][ IncludeInCapture =>
        LET before == CurrentBlocks
            after == BlocksOf(chapters', currentChapterId, currentSectionTitle)
        IN /\ Len(after) > Len(before)
           /\ SubSeq(after, 1, Len(before)) = before
           /\ after[Len(before) + 1].type = "code"
           /\ after[Len(before) + 1].id = activeSnippetId
           /\ after[Len(before) + 1].content = dedent(codeBuffer)
           /\ ~isCapturingCode'
           /\ activeSnippetId' = Null
           /\ codeBuffer' = <<>> ]_vars

\* the include came while snip1 held a line: its block stands before the tab
C18_Witness ==
  /\ branch = "include"
  /\ read[1] = << Chapter("demo", "Demo"), Start("snip1"), <<" ", " ">> \o ConstX,
                  IncludeWith(<<"B.sol">>, "\"group\":\"g\"") >>
  /\ Len(CurrentBlocks) = 2
  /\ CurrentBlocks[1].type = "code"
  /\ CurrentBlocks[1].content = ConstX
  /\ CurrentBlocks[2].type = "tabs"
  /\ ~isCapturingCode

\* the step reads a start-capture line while a capture is open
StartInCapture == pc = "scan" /\ Took("start") /\ isCapturingCode

\* the new capture begins: the new id, an empty buffer
NewCapture ==
  /\ isCapturingCode'
  /\ activeSnippetId' = Matched[line'].startMatch.id
  /\ codeBuffer' = <<>>

\* the earlier capture was added to the current section as a Code block
EarlierEmitted ==
  LET before == CurrentBlocks
      after == BlocksOf(chapters', currentChapterId, currentSectionTitle)
  IN /\ Len(after) = Len(before) + 1
     /\ after = Append(before, LastOf(after))
     /\ LastOf(after).type = "code"
     /\ LastOf(after).id = activeSnippetId
     /\ LastOf(after).content = dedent(codeBuffer)

\* C19 as stated: a start-capture line met while a capture is open emits the
\* content buffered for the earlier capture as a Code block with the earlier
\* id, and the new capture starts with an empty buffer and the new id.
C19_StartFlushesCapture == [][StartInCapture => (EarlierEmitted /\ NewCapture)]_vars

\* C19 as amended: ... emits it when a chapter is current; with no current
\* chapter the earlier buffer is discarded and no chapter changes.  Either
\* way the new capture starts with an empty buffer and the new id.
C19_StartFlushesInChapter ==
  [][ StartInCapture =>
        /\ NewCapture
        /\ IF currentChapterId # Null THEN EarlierEmitted ELSE chapters' = chapters ]_vars

C19_Witness ==
  /\ branch = "start"
  /\ read[1] = << Chapter("demo", "Demo"), Start("snip1"), <<" ", " ">> \o ConstX,
                  Start("snip2") >>
  /\ Len(CurrentBlocks) = 1
  /\ CurrentBlocks[1].id = "snip1"
  /\ CurrentBlocks[1].content = ConstX
  /\ activeSnippetId = "snip2"
  /\ codeBuffer = <<>>

\* the step reads an ignore-marker line
ReadsIgnoreMarker == pc = "scan" /\ nLines' = nLines + 1 /\ line' = Ignore

\* C20: an ignore-marker line is added neither to the code buffer nor to any
\* Markdown block, and the capture flag, the open snippet id and the buffer
\* are the same after the line as before it.
C20_IgnoreLeavesCapture ==
  [][ReadsIgnoreMarker =>
       UNCHANGED <<chapters, isCapturingCode, activeSnippetId, codeBuffer>>]_vars

C20_Witness ==
  /\ read[1] = << Chapter("demo", "Demo"), Start("snip1"), ConstX, Ignore >>
  /\ branch = "ignore"
  /\ isCapturingCode
  /\ activeSnippetId = "snip1"
  /\ codeBuffer = <<ConstX>>

\* the step creates chapter number k
Creates(k) == k = Len(chapters) + 1 /\ Len(chapters') = k

\* the folder of the file being scanned, from the project root
DeclaringDir == SubSeq(dirname(filePath), Len(rootDir) + 1, Len(filePath) - 1)

Titles(ch) == [j \in 1..Len(ch.sections) |-> ch.sections[j].title]

IsPrefix(s, t) == Len(s) <= Len(t) /\ SubSeq(t, 1, Len(s)) = s

\* no chapter has two sections with one title
UniqueTitles ==
  \A k \in 1..Len(chapters) :
    \A i, j \in 1..Len(chapters[k].sections) :
      chapters[k].sections[i].title = chapters[k].sections[j].title => i = j

\* sections are only added at the end of a chapter
FirstSeenOrder ==
  \A k \in 1..Len(chapters) : IsPrefix(Titles(chapters[k]), Titles(chapters'[k]))

\* a header naming a section the current chapter has changes no chapter
HeaderContinues ==
  (Took("section") /\ HasChapter(chapters, currentChapterId)
     /\ HasSection(chapters[ChapterIndex(chapters, currentChapterId)],
                   Matched[line'].sectionMatch.title)) =>
     /\ chapters' = chapters
     /\ currentSectionTitle' = Matched[line'].sectionMatch.title

\* a narrative line in a section the current chapter has goes to that section
ContentContinues ==
  (Took("narrative") /\ HasChapter(chapters, currentChapterId)
     /\ HasSection(chapters[ChapterIndex(chapters, currentChapterId)], currentSectionTitle)) =>
     LET k == ChapterIndex(chapters, currentChapterId)
         j == SectionIndex(chapters[k], currentSectionTitle)
         before == chapters[k].sections[j].blocks
         after == chapters'[k].sections[j].blocks
     IN /\ Titles(chapters'[k]) = Titles(chapters[k])
        /\ \A i \in 1..Len(chapters[k].sections) :
             i # j => chapters'[k].sections[i] = chapters[k].sections[i]
        /\ after # before
        /\ Len(after) >= Len(before)
        /\ \A b \in 1..(Len(before) - 1) : after[b] = before[b]

\* C22: within a chapter section titles are unique after any lines; a header
\* or narrative line naming an existing title continues that section and
\* creates no second one; sections stay in first-seen order.
C22_SectionsKeyedByTitle ==
  []UniqueTitles /\ [][FirstSeenOrder /\ HeaderContinues /\ ContentContinues]_vars

\* back in "Overview" after "Intro": the second narrative line joined the first section
C22_Witness ==
  /\ read[1] = << Chapter("demo", "Demo"), Hello, Section("Intro"), Section("Overview"),
                  Hello >>
  /\ branch = "narrative"
  /\ Len(chapters) = 1
  /\ Titles(chapters[1]) = << <<"Overview">>, <<"Intro">> >>
  /\ Len(chapters[1].sections[1].blocks) = 1

\* the line holds a comment and nothing else
CommentOnly(l) == trim(l) # <<>> /\ trim(CleanLine(RemoveBlockComments(l))) = <<>>

\* the lines without those that hold only a comment, the others without theirs
WithoutCommentLines(ls) ==
  LET kept == SelectSeq(ls, LAMBDA l : ~CommentOnly(l))
  IN [i \in 1..Len(kept) |-> trimEnd(CleanLine(RemoveBlockComments(kept[i])))]

\* C23: comment stripping drops exactly the lines that held only a comment
\* (a line comment or a block comment); every line that was blank in the
\* source is kept, and no comment line is left behind as a blank line.
C23_DropsCommentLines ==
  helper = "stripComments" => output = JoinLines(WithoutCommentLines(SplitLines(input)))

\* the step handles an include directive whose target is a bare file name
BareIncludeStep ==
  /\ pc = "scan"
  /\ Took("include")
  /\ Len(Matched[line'].includeMatch.targetPath) = 1
  /\ Matched[line'].includeMatch.rawOptions = <<>>

\* the files of the project with the name the include gives
Named == {f \in FsFiles : SubSeq(f, 1, Len(rootDir)) = rootDir
                          /\ basename(f) = Matched[line'].includeMatch.targetPath[1]}

\* the include resolved to one of the files, or to none when there is none
ResolvedAmong(allowed) ==
  LET before == CurrentBlocks
      after == BlocksOf(chapters', currentChapterId, currentSectionTitle)
  IN IF allowed = {} THEN chapters' = chapters
     ELSE /\ Len(after) = Len(before) + 1
          /\ LastOf(after).type = "code"
          /\ LastOf(after).sourceFile \in allowed

PassDone == rpc \in {"write", "summary", "done"}

\* the folder is shown: each folder on the way to it is in the renderList of
\* the one above
Shown(n) ==
  \A k \in 1..Len(n) : HasItem(SubSeq(n, 1, k - 1), "node", SubSeq(n, 1, k))

\* no chapter and no file in the folder or below it, hoisted ones included
DeadEnd(n) ==
  \A m \in DOMAIN nodes :
    (Len(m) >= Len(n) /\ SubSeq(m, 1, Len(n)) = n)
      => /\ nodes[m].chapters = <<>>
         /\ nodes[m].files = <<>>
         /\ \A i \in 1..Len(nodes[m].renderList) :
              nodes[m].renderList[i].type \notin {"chapter", "file"}

\* C25: after the tree pass no folder whose subtree holds no chapter and no
\* file is reachable through node items from the renderList of the root,
\* whether or not the configuration names the folder.
C25_NoDeadEndFolder ==
  PassDone => \A n \in DOMAIN nodes : (n # <<>> /\ Shown(n)) => ~DeadEnd(n)

\* the entry has the form of a separator
SeparatorEntry(e) ==
  e.key[1] \in SeparatorKeys \/ (e.config.kind = "object" /\ e.config.type = "separator")

\* the entry names a child folder or a chapter of the node
NamesOwn(n, e) ==
  /\ Len(e.key) = 1
  /\ e.key[1] \notin RestKeys
  /\ ~SeparatorEntry(e)
  /\ \/ \E k \in 1..Len(nodes[n].children) : nodes[n].children[k] = e.key[1]
     \/ \E k \in 1..Len(nodes[n].chapters) : nodes[n].chapters[k] = e.key[1]

\* the entry names, by a path, a chapter that a folder below the node holds
NamesBelow(n, e) ==
  /\ Len(e.key) > 1
  /\ ~SeparatorEntry(e)
  /\ SubSeq(e.key, 1, Len(e.key) - 1) \in {SubSeq(m, Len(n) + 1, Len(m)) :
        m \in {x \in DOMAIN nodes : Len(x) > Len(n) /\ SubSeq(x, 1, Len(n)) = n}}
  /\ LET m == n \o SubSeq(e.key, 1, Len(e.key) - 1)
     IN \E k \in 1..Len(nodes[m].chapters) : nodes[m].chapters[k] = e.key[Len(e.key)]

\* the item the entry puts in the renderList
ItemOf(n, e) ==
  IF SeparatorEntry(e) THEN [type |-> "separator", title |-> e.config.title]
  ELSE IF \E k \in 1..Len(nodes[n].chapters) : nodes[n].chapters[k] = e.key[Len(e.key)]
  THEN [type |-> "chapter", data |-> e.key[1]]
  ELSE IF Len(e.key) = 1 THEN [type |-> "node", data |-> Append(n, e.key[1])]
  ELSE [type |-> "chapter", data |-> e.key[Len(e.key)]]

\* the part of the renderList the configuration gives, in the order of its keys
Configured(n) ==
  LET giving == SelectSeq(MetaOf(n),
                  LAMBDA e : (SeparatorEntry(e) /\ ~(Len(e.key) = 1 /\ e.key[1] \in RestKeys))
                             \/ NamesOwn(n, e) \/ NamesBelow(n, e))
  IN [i \in 1..Len(giving) |-> ItemOf(n, giving[i])]

\* the child folders and chapters of the node that no key names
Unconsumed(n) ==
  ({[type |-> "node", data |-> Append(n, nodes[n].children[k])] : k \in 1..Len(nodes[n].children)}
   \cup {[type |-> "chapter", data |-> nodes[n].chapters[k]] : k \in 1..Len(nodes[n].chapters)})
  \ {ItemOf(n, MetaOf(n)[i]) : i \in {j \in 1..Len(MetaOf(n)) : NamesOwn(n, MetaOf(n)[j])}}

\* the step is a call of processNode that returns, for node n
ProcessesNode(n) == rpc = "meta" /\ rpc' # "thrown" /\ Len(queue) > 0 /\ n = Head(queue)

\* C26: the renderList processNode gives a node is the items of the
\* configuration keys in key order (separators, matched items, hoisted
\* chapters), then every available item no key consumed (empty folders left
\* out), folders before chapters and alphabetically by label or title within
\* each; no item is in both parts.
C26_ConfiguredThenRest ==
  [][\A n \in DOMAIN nodes :
       ProcessesNode(n) =>
         LET list == nodes'[n].renderList
             c == Len(Configured(n))
             rest == SubSeq(list, c + 1, Len(list))
             after == [nodes |-> nodes', docs |-> docs', navFiles |-> navFiles']
         IN /\ Len(list) >= c
            /\ SubSeq(list, 1, c) = Configured(n)
            /\ {rest[i] : i \in 1..Len(rest)} =
                 {x \in Unconsumed(n) : ~(x.type = "node" /\ isEmpty(after, x.data))}
            /\ \A i, j \in 1..Len(rest) :
                 i < j =>
                   /\ rest[i] # rest[j]
                   /\ ~(rest[i].type # "node" /\ rest[j].type = "node")
                   /\ (rest[i].type = "node") = (rest[j].type = "node") =>
                        localeCompare(getItemName(after, rest[i]),
                                      getItemName(after, rest[j])) <= 0
            /\ \A i \in 1..c : \A j \in 1..Len(rest) : list[i] # rest[j]]_vars

\* advanced after its pass: two separators and a chapter by the keys, then
\* the folders no key consumed
C26_Witness ==
  /\ commonPrefix = advanced
  /\ Processed(<<>>)
  /\ metaFiles[rootDir \o advanced] = Separators
  /\ Len(nodes[<<>>].renderList) = 6
  /\ nodes[<<>>].renderList[1] = [type |-> "separator", title |-> <<"Governance">>]
  /\ nodes[<<>>].renderList[2] = [type |-> "chapter", data |-> "acl"]
  /\ nodes[<<>>].renderList[5] = [type |-> "node", data |-> <<"tokens">>]
  /\ nodes[<<>>].renderList[6] = [type |-> "node", data |-> <<"voting">>]

\* the configuration the node reads marks the item hidden
MarkedHidden(n, item) ==
  \E i \in 1..Len(MetaOf(n)) :
    /\ MetaOf(n)[i].config.kind = "object"
    /\ MetaOf(n)[i].config.hidden
    /\ ~SeparatorEntry(MetaOf(n)[i])
    /\ item.type \in {"chapter", "node"}
    /\ item.data = (IF item.type = "chapter" THEN MetaOf(n)[i].key[Len(MetaOf(n)[i].key)]
                    ELSE n \o MetaOf(n)[i].key)

\* C27: an item whose configuration entry marks it hidden is not in the
\* renderList of the node, and the table of contents has no entry for it.
C27_HiddenIsHidden ==
  /\ \A n \in DOMAIN nodes :
       Processed(n) =>
         \A i \in 1..Len(nodes[n].renderList) : ~MarkedHidden(n, nodes[n].renderList[i])
  /\ (rpc = "done" /\ \E n \in DOMAIN nodes : MarkedHidden(n, [type |-> "chapter", data |-> "acl"]))
       => \A i \in 1..Len(summary) :
            ~(summary[i].kind = "link" /\ summary[i].url[Len(summary[i].url)] = "acl.md")

\* the key starts with "---" or the value has the type "separator"
SeparatorForm(e) ==
  e.key[1] \in {"---", "---2"} \/ (e.config.kind = "object" /\ e.config.type = "separator")

\* C28: each configuration key in separator form adds exactly one separator
\* item with the configured title, at its place among the keys, and consumes
\* nothing: leaving the separators out, the renderList and every folder and
\* chapter are what processNode gives without the separator keys.
C28_SeparatorConsumesNothing ==
  [][\A n \in DOMAIN nodes :
       ProcessesNode(n) =>
         LET list == nodes'[n].renderList
             separators == SelectSeq(list, LAMBDA i : i.type = "separator")
             keys == SelectSeq(MetaOf(n), SeparatorForm)
             without == processNode(T, n, SelectSeq(MetaOf(n), LAMBDA e : ~SeparatorForm(e)))
         IN /\ separators = [i \in 1..Len(keys) |->
                               [type |-> "separator", title |-> keys[i].config.title]]
            /\ SelectSeq(list, LAMBDA i : i.type # "separator") = without.nodes[n].renderList
            /\ [nodes' EXCEPT ![n].renderList = without.nodes[n].renderList] = without.nodes
            /\ docs' = without.docs]_vars

\* three separators among the items of advanced; the folder voting, named by
\* a key of type "separator", is still there
C28_Witness ==
  /\ InAdvanced \in DOMAIN nodes
  /\ Processed(InAdvanced)
  /\ metaFiles[rootDir \o advanced] = Separators
  /\ nodes[InAdvanced].renderList =
       << [type |-> "separator", title |-> <<"Governance">>],
          [type |-> "chapter", data |-> "acl"],
          [type |-> "separator", title |-> <<"Systems">>],
          [type |-> "separator", title |-> <<>>],
          [type |-> "node", data |-> <<"advanced", "voting">>] >>

\* a hoist key that names no folder on its path or no chapter of the folder
Unresolved(n, e) == Len(e.key) > 1 /\ ~SeparatorForm(e) /\ ~NamesBelow(n, e)

\* C29: a hoist key that names a missing folder or a chapter the folder does
\* not hold is skipped: processNode returns, and the renderList, the folders
\* and the chapters (where they are held, their output directory and title)
\* are what it gives without that key; the keys after it are processed.
C29_UnresolvedHoistSkipped ==
  [][\A n \in DOMAIN nodes :
       (rpc = "meta" /\ Len(queue) > 0 /\ n = Head(queue)
          /\ \E i \in 1..Len(MetaOf(n)) : Unresolved(n, MetaOf(n)[i])) =>
         LET without == processNode(T, n, SelectSeq(MetaOf(n), LAMBDA e : ~Unresolved(n, e)))
         IN /\ rpc' # "thrown"
            /\ nodes' = without.nodes
            /\ docs' = without.docs
            /\ \A m \in DOMAIN nodes : nodes'[m].chapters = nodes[m].chapters
            /\ \A id \in DOMAIN docs : docs'[id].title = docs[id].title]_vars

\* after the two keys that resolve to nothing the key voting was applied
C29_Witness ==
  /\ InAdvanced \in DOMAIN nodes
  /\ Processed(InAdvanced)
  /\ metaFiles[rootDir \o advanced] = BadHoists
  /\ <<"advanced", "voting">> \in DOMAIN nodes
  /\ "acl" \in DOMAIN docs
  /\ nodes[<<"advanced", "voting">>].label = <<"DAO", " ", "Systems">>
  /\ nodes[InAdvanced].renderList =
       << [type |-> "node", data |-> <<"advanced", "voting">>],
          [type |-> "chapter", data |-> "acl"] >>
  /\ docs["acl"].title = <<"Access">>
  /\ docs["acl"].writeDir = Dir(InAdvanced)

\* the node has no _meta.json, or one that is no JSON, or one that is no object
NoConfiguration(n) ==
  LET p == nodes[n].sourcePath
  IN \/ p \notin DOMAIN metaFiles
     \/ ~metaFiles[p].exists
     \/ ~metaFiles[p].valid
     \/ ParsedNull(p)

\* C30: reading the configuration of a node never aborts the tree pass; a
\* node whose _meta.json is absent or malformed is processed with an empty
\* configuration: its renderList is its available items, sorted.
C30_MalformedMetaIsEmpty ==
  [][\A n \in DOMAIN nodes :
       (rpc = "meta" /\ Len(queue) > 0 /\ n = Head(queue) /\ NoConfiguration(n)) =>
         /\ rpc' # "thrown"
         /\ nodes' = processNode(T, n, <<>>).nodes
         /\ nodes'[n].renderList =
              SortItems(T, RestItems(T, Available(T, n), {}))]_vars

\* ------------------------------------------------------ the table of contents
\* one entry for each item of the renderLists, depth-first: its depth, its
\* text and whether it is a link
RECURSIVE Mirror(_, _, _)
Mirror(t, items, depth) ==
  IF Len(items) = 0 THEN <<>>
  ELSE LET item == items[1]
           entry == [depth |-> depth,
                     text |-> IF item.type = "separator"
                              THEN (IF item.title = <<>> THEN <<"---">> ELSE item.title)
                              ELSE getItemName(t, item),
                     link |-> item.type \in {"chapter", "file"}]
           below == IF item.type = "node"
                    THEN Mirror(t, t.nodes[item.data].renderList, depth + 1)
                    ELSE <<>>
       IN <<entry>> \o below \o Mirror(t, Tail(items), depth)

\* the entries of SUMMARY.md after the introduction
Entries ==
  [i \in 1..Len(summary) |->
     [depth |-> summary[i].depth, text |-> summary[i].text, link |-> summary[i].kind = "link"]]

Writing == rpc \in {"write", "summary", "done"}

\* the file written for the chapter
FileOf(id) == CHOOSE p \in DOMAIN outFiles : p[Len(p)] = id \o ".md"

\* C32: in a render run the output directory is cleared first, chapter files
\* and the table of contents are written only after every chapter is in the
\* tree and the whole configuration pass is over, and nothing of the tree
\* or of a chapter changes from then on; so the front matter of every
\* chapter file has the final title, the one its link in the table of
\* contents shows.
C32_WriteAfterPass ==
  /\ [][(rpc = "idle" /\ rpc' # "idle") => outFiles' = Empty]_vars
  /\ []((rpc # "idle" /\ (outFiles # Empty \/ summary # <<>>)) => (Writing /\ queue = <<>>))
  /\ [](summary # <<>> => rpc = "done")
  /\ [][Writing => (Writing' /\ nodes' = nodes /\ docs' = docs)]_vars
  /\ [](rpc = "done" =>
          /\ StaleFile \notin DOMAIN outFiles
          /\ \A i \in 1..Len(toRender) :
               /\ \E p \in DOMAIN outFiles : p[Len(p)] = toRender[i] \o ".md"
               /\ outFiles[FileOf(toRender[i])].title = docs[toRender[i]].title
          /\ \A i \in 1..Len(summary) :
               summary[i].kind = "link" =>
                 \E id \in DOMAIN docs :
                   /\ summary[i].url[Len(summary[i].url)] = id \o ".md"
                   /\ summary[i].text = outFiles[FileOf(id)].title)

\* the run is over: the file of the hoisted chapter and its link both bear
\* the title the configuration gave, and the file of the earlier run is gone
C32_Witness ==
  /\ rpc = "done"
  /\ "erc20" \in DOMAIN docs
  /\ docs["erc20"].title = ConfidentialTokens
  /\ outFiles[FileOf("erc20")].title = ConfidentialTokens
  /\ \E i \in 1..Len(summary) : summary[i].kind = "link" /\ summary[i].text = ConfidentialTokens
  /\ StaleFile \notin DOMAIN outFiles

\* where the chapter is listed: the shown folders and the places in their
\* renderLists
Listings(id) ==
  { <<n, i>> \in UNION { {n} \X (1..Len(nodes[n].renderList)) : n \in {m \in DOMAIN nodes : Shown(m)} } :
      /\ nodes[n].renderList[i].type = "chapter"
      /\ nodes[n].renderList[i].data = id }

\* C33: once the tree pass is over, every chapter added to the tree is a
\* chapter item of exactly one renderList among the folders shown from the
\* root, also when its id is the name of a folder beside it.
C33_EveryChapterOnce ==
  PassDone => \A id \in DOMAIN docs : Cardinality(Listings(id)) = 1

\* one of the expressions of the loop body matches the line, or its trimmed
\* form starts with "///"
Recognised(l) ==
  LET m == Matched[l]
  IN \/ m.chapterMatch.ok \/ m.sectionMatch.ok \/ m.priorityMatch.ok \/ m.includeMatch.ok
     \/ m.startMatch.ok \/ m.endMatch.ok \/ m.ignoreMatch \/ m.narrativeMatch

\* the step reads a line
ReadsLine == pc = "scan" /\ nLines' = nLines + 1

\* the step reads a "///" line that is no directive, inside a chapter and
\* inside a capture
NarrativeInCapture ==
  /\ ReadsLine
  /\ isCapturingCode
  /\ currentChapterId # Null
  /\ Matched[line'].narrativeMatch
  /\ ~Matched[line'].chapterMatch.ok
  /\ ~Matched[line'].sectionMatch.ok
  /\ ~Matched[line'].priorityMatch.ok
  /\ ~Matched[line'].includeMatch.ok

\* the step closes the capture with its end marker
ClosesCapture ==
  /\ ReadsLine
  /\ isCapturingCode
  /\ ~isCapturingCode'
  /\ Matched[line'].endMatch.ok

\* C34: the code buffer never holds a chapter, section, priority, include,
\* start, end or ignore line nor any line whose trimmed form starts with
\* "///", also while a capture is open; a narrative line inside an open
\* capture leaves the buffer alone and ends the last Markdown block of the
\* current section, and the Code block of the capture is appended after
\* the blocks the section has when the capture is closed.
C34_BufferHoldsCodeOnly ==
  /\ [](\A i \in 1..Len(codeBuffer) : ~Recognised(codeBuffer[i]))
  /\ [][(ReadsLine /\ Recognised(line')) => codeBuffer' \in {codeBuffer, <<>>}]_vars
  /\ [][NarrativeInCapture =>
          LET blocks == BlocksOf(chapters', currentChapterId, currentSectionTitle)
          IN /\ codeBuffer' = codeBuffer
             /\ isCapturingCode'
             /\ Len(blocks) > 0
             /\ LastOf(blocks).type = "markdown"
             /\ EndsWith(LastOf(blocks).content, narrativeText(line'))]_vars
  /\ [][ClosesCapture =>
          LET after == BlocksOf(chapters', currentChapterId, currentSectionTitle)
          IN /\ after = Append(CurrentBlocks, LastOf(after))
             /\ LastOf(after).type = "code"
             /\ LastOf(after).id = activeSnippetId]_vars

\* a narrative line between the start marker and the code line: the Markdown
\* block comes before the Code block, which holds the code line only
C34_Witness ==
  /\ pc = "returned"
  /\ read[1] = << Chapter("demo", "Demo"), Start("snip1"), Hello, ConstX, End("snip1") >>
  /\ Len(result) = 1
  /\ Len(result[1].sections) = 1
  /\ Len(result[1].sections[1].blocks) = 2
  /\ result[1].sections[1].blocks[1] = [type |-> "markdown", content |-> <<"Hello", " ", "world">>]
  /\ result[1].sections[1].blocks[2].type = "code"
  /\ result[1].sections[1].blocks[2].content = ConstX

\* the current file has declared no chapter so far
NoChapterYet ==
  \A i \in 1..Len(read[fileIdx]) : ~Matched[read[fileIdx][i]].chapterMatch.ok

\* C35: the scan of every file starts with no current chapter, the section
\* title "Overview", no open capture and an empty buffer, and a line read
\* before the first chapter declaration of its file changes no chapter,
\* whatever earlier files declared or left open.
C35_ContextPerFile ==
  /\ [][fileIdx' # fileIdx =>
          /\ currentChapterId' = Null
          /\ currentSectionTitle' = <<"Overview">>
          /\ ~isCapturingCode'
          /\ activeSnippetId' = Null
          /\ codeBuffer' = <<>>]_vars
  /\ [][(ReadsLine /\ NoChapterYet /\ ~Matched[line'].chapterMatch.ok)
          => chapters' = chapters]_vars

\* the first file declared a chapter and left a capture open; the narrative
\* line of the second file went nowhere
C35_Witness ==
  /\ fileIdx = 2
  /\ read[1] = << Chapter("demo", "Demo"), Start("snip1") >>
  /\ read[2] = << Hello >>
  /\ Len(chapters) = 1
  /\ chapters[1].sections = <<>>
  /\ ~isCapturingCode

\* the places of the chapter declarations among the lines of the current file
Declarations == {i \in 1..Len(Seen) : Matched[Seen[i]].chapterMatch.ok}

\* the places of the section headers met after a chapter declaration
Headers ==
  {i \in 1..Len(Seen) : /\ Matched[Seen[i]].sectionMatch.ok
                        /\ ~Matched[Seen[i]].chapterMatch.ok
                        /\ \E j \in Declarations : j < i}

Latest(S) == CHOOSE i \in S : \A j \in S : j <= i

\* the id the file declared last
LastDeclared == Matched[Seen[Latest(Declarations)]].chapterMatch.id

\* the title the file set last, "Overview" when it has set none
LastTitle ==
  IF Headers = {} THEN <<"Overview">> ELSE Matched[Seen[Latest(Headers)]].sectionMatch.title

\* the step reads a narrative line in a file that has declared a chapter
ReadsNarrative ==
  /\ ReadsLine
  /\ fileIdx' = fileIdx
  /\ Declarations # {}
  /\ Matched[line'].narrativeMatch
  /\ ~Matched[line'].chapterMatch.ok
  /\ ~Matched[line'].sectionMatch.ok
  /\ ~Matched[line'].priorityMatch.ok
  /\ ~Matched[line'].includeMatch.ok

GroupOf(l) == JSONparse(Matched[l].includeMatch.rawOptions).group

\* the step reads an include directive that names a group, inside a chapter
ReadsGroupedInclude ==
  /\ ReadsLine
  /\ Declarations # {}
  /\ line' \in TabLines
  /\ Matched[line'].includeMatch.ok
  /\ Matched[line'].includeMatch.rawOptions # <<>>
  /\ GroupOf(line') \notin {Null, ""}

\* no empty TabGroup, and no TabGroup next to one of the same group
TabGroupsApart ==
  \A k \in 1..Len(chapters) :
    \A j \in 1..Len(chapters[k].sections) :
      LET blocks == chapters[k].sections[j].blocks
      IN \A i \in 1..Len(blocks) :
           blocks[i].type = "tabs" =>
             /\ Len(blocks[i].tabs) >= 1
             /\ (i > 1 /\ blocks[i - 1].type = "tabs")
                   => blocks[i - 1].groupId # blocks[i].groupId

\* C37: every TabGroup holds a tab and no section has two TabGroups of one
\* group side by side; an include that names a group adds its tab to the
\* last block of the section when that block is a TabGroup of the group, and
\* otherwise opens a new TabGroup of one tab at the end of the section,
\* whatever TabGroups of the group lie further up.
C37_TabGroupsApart ==
  /\ []TabGroupsApart
  /\ [][ReadsGroupedInclude =>
          LET before == CurrentBlocks
              after == BlocksOf(chapters', currentChapterId, currentSectionTitle)
              n == Len(before)
          IN IF n > 0 /\ before[n].type = "tabs" /\ before[n].groupId = GroupOf(line')
             THEN /\ Len(after) = n
                  /\ SubSeq(after, 1, n - 1) = SubSeq(before, 1, n - 1)
                  /\ after[n].type = "tabs"
                  /\ after[n].groupId = before[n].groupId
                  /\ Len(after[n].tabs) = Len(before[n].tabs) + 1
                  /\ SubSeq(after[n].tabs, 1, Len(before[n].tabs)) = before[n].tabs
             ELSE /\ Len(after) = n + 1
                  /\ SubSeq(after, 1, n) = before
                  /\ after[n + 1].type = "tabs"
                  /\ after[n + 1].groupId = GroupOf(line')
                  /\ Len(after[n + 1].tabs) = 1]_vars

\* a narrative line between two includes of group "g": two TabGroups "g" of
\* one tab each, the Markdown block between them
C37_Witness ==
  /\ Len(Seen) = 4
  /\ Seen[2] \in GroupIncludes
  /\ Seen[3] = Hello
  /\ Seen[4] \in GroupIncludes
  /\ Len(CurrentBlocks) = 3
  /\ CurrentBlocks[1].type = "tabs" /\ CurrentBlocks[1].groupId = "g"
  /\ CurrentBlocks[2].type = "markdown"
  /\ CurrentBlocks[3].type = "tabs" /\ CurrentBlocks[3].groupId = "g"
  /\ Len(CurrentBlocks[1].tabs) = 1 /\ Len(CurrentBlocks[3].tabs) = 1

\* the ids of the Code blocks includes make
IncludeIds == {"include-" \o basename(f) : f \in FsFiles}

\* the places of the Code blocks and tabs that come from includes
IncludePlaces(chs) ==
  UNION { UNION { UNION {
    LET b == chs[k].sections[j].blocks[i]
    IN IF b.type = "tabs" THEN {<<k, j, i, t>> : t \in 1..Len(b.tabs)}
       ELSE IF b.type = "code" /\ b.id \in IncludeIds THEN {<<k, j, i, 0>>}
       ELSE {}
    : i \in 1..Len(chs[k].sections[j].blocks) }
    : j \in 1..Len(chs[k].sections) }
    : k \in 1..Len(chs) }

\* what a chapter declaration sets
Declared(chs) ==
  [k \in 1..Len(chs) |-> [id |-> chs[k].id, title |-> chs[k].title,
                          priority |-> chs[k].priority, filePath |-> chs[k].filePath]]

\* the step handles an include directive
ReadsInclude ==
  /\ pc = "scan"
  /\ read' # read
  /\ Declarations # {}
  /\ Matched[line'].includeMatch.ok
  /\ ~Matched[line'].chapterMatch.ok
  /\ ~Matched[line'].sectionMatch.ok
  /\ ~Matched[line'].priorityMatch.ok

\* the lines handled so far, over all files
RECURSIVE LinesRead(_)
LinesRead(k) == IF k = 0 THEN 0 ELSE Len(read[k]) + LinesRead(k - 1)

\* C38: an include adds at most one tab or Code block of included content
\* and nothing a directive of the included file would set (no chapter, no
\* title, no priority, no change of the current chapter or section), also
\* when the file names itself or a file that names it; every step of the
\* loop uses up one line, so the steps are as many as the lines, and the
\* scan returns.
C38_IncludeNotScanned ==
  /\ [][ReadsInclude =>
          /\ Cardinality(IncludePlaces(chapters')) <= Cardinality(IncludePlaces(chapters)) + 1
          /\ Declared(chapters') = Declared(chapters)
          /\ currentChapterId' = currentChapterId
          /\ currentSectionTitle' = currentSectionTitle
          /\ fileIdx' = fileIdx
          /\ Len(read'[fileIdx]) = Len(read[fileIdx]) + 1]_vars
  /\ [](nLines = LinesRead(Len(files)) /\ nLines <= limit)
  /\ <>(pc = "returned")

\* the first file includes itself and the second, the second includes the
\* first: the scan is over with one block for each include
C38_Witness ==
  /\ pc = "returned"
  /\ read[1] = << Chapter("demo", "Demo"), Include(<<"a.test.ts">>), Include(<<"A.sol">>) >>
  /\ read[2] = << Chapter("other", "Other"), Include(<<"a.test.ts">>) >>
  /\ Len(result) = 2
  /\ Cardinality(IncludePlaces(result)) = 3

Called(f) == \E i \in 1..Len(called) : called[i] = f

\* every call of f comes after a call of g
After(f, g) ==
  \A i \in 1..Len(called) : called[i] = f => \E j \in 1..(i - 1) : called[j] = g

\* C39: createProject generates the documentation only when installation is
\* enabled and only after installDependencies, and when git initialisation
\* is enabled initializeGit is called in the end, after the documentation
\* step when there is one, also when the scan finds no chapter.
C39_DocsThenGit ==
  /\ [](Called("generateDocs") => (args.install /\ After("generateDocs", "installDependencies")))
  /\ []((Called("initializeGit") /\ args.install) => After("initializeGit", "generateDocs"))
  /\ (args.git ~> Called("initializeGit"))

====
